---- MODULE Spec2Model ----
(***************************************************************************)
(* Matching engine, order book and liquidation monitor of trade.re         *)
(* (internal/engine/matcher.go, internal/engine/orderbook.go,              *)
(* internal/liquidation/engine.go).                                        *)
(*                                                                         *)
(* Decimals: order prices and sizes are integer valued in this model.      *)
(* Position entry prices and realised P&L, which the code obtains with      *)
(* decimal.Div, are fixed-point integers in units of 1/DecScale; Div rounds *)
(* half away from zero at DivisionPrecision digits, as shopspring/decimal   *)
(* does at 16 digits.                                                        *)
(***************************************************************************)
EXTENDS Integers, Sequences, FiniteSets, TLC

\* ---- bounds of the model ------------------------------------------------
MaxOrders == 3
MaxPrice == 2
MaxSize == 2
\* digits kept by a decimal division (16 in shopspring/decimal)
DivisionPrecision == 2
MaxLiqOrders == 2
MaxInsuranceFund == 1
MaxHubOrders == 2
MaxRestartOrders == 2
MaxBookOrders == 3
\* capacity of h.broadcast and of client.send (256 in NewHub and NewClient)
MaxBroadcastBuffer == 2
MaxSendBuffer == 2

\* ---- program constants --------------------------------------------------
MaxLeverage == 150
RecentTradesCap == 1000
DefaultPositionLeverage == 1
StartingBalance == 10000
InsuranceFundInitial == 1000000
DefaultMarkPrice == 1000
DefaultStartingPrice == 1000
LiquidationsCap == 100
\* the price a market buy hands to matchableAsks ("very high price"): the
\* code uses decimal.New(1, 18); any value above every ask price behaves alike
MarketBuyLimit == 1000000000

DecScale == 10 ^ DivisionPrecision

\* liquidation prices and maintenance margins carry three more digits than
\* DecScale (the margins are multiples of 0.005)
MarginScale == 1000

LiqScale == DecScale * MarginScale

RIndex == "R.index"
Instruments == {RIndex, "X.none"}
TraderIds == {"A", "B"}
UnknownTrader == "U"
Sides == {"buy", "sell"}
OrderTypes == {"limit", "market"}
Prices == 1 .. MaxPrice
Sizes == 1 .. MaxSize
ValidLeverage == 10
OrderIds == 1 .. MaxOrders

VARIABLES
    book,          \* me.books["R.index"]: [bids, asks, orders]
    orders,        \* the domain.Order objects created so far, by id
    positions,     \* me.positions, by trader id (single instrument)
    traders,       \* me.traders, by trader id
    recentTrades,  \* me.recentTrades, newest first
    db,            \* the SQLite tables: orders, positions, trades, traders
    events,        \* calls of the order and trade handlers, in call order
    ret,           \* outcome of the last operation
    nextId,        \* stands for uuid.New(): the next fresh order id
    liquidations,  \* me.liquidations, newest first
    insuranceFund, \* Engine.insuranceFund of the liquidation engine
    scan,          \* the monitor goroutine: where checkPositions stands
    cfg,           \* the configuration main loads: [starting_price,
                   \* insurance_fund_initial]
    hub            \* the WebSocket hub: [next, clients, closed, visit, fault]

engineVars == <<book, orders, positions, traders, recentTrades, db, events, ret, nextId>>

monitorVars == <<liquidations, insuranceFund, scan, cfg>>

vars == <<book, orders, positions, traders, recentTrades, db, events, ret, nextId,
          liquidations, insuranceFund, scan, cfg, hub>>

\* ---- helpers --------------------------------------------------------------
Abs(x) == IF x < 0 THEN 0 - x ELSE x

Min(a, b) == IF a < b THEN a ELSE b

Dec(n) == n * DecScale

\* a division that drops the digits beyond the precision
DecDiv_truncates(a, b) ==
    LET q == Abs(a) \div Abs(b)
    IN IF (a < 0) = (b < 0) THEN q ELSE 0 - q

\* decimal.Div: quotient rounded half away from zero at the division precision
\* (a is in units of 1/DecScale, b is an integer)
DecDiv(a, b) ==
    LET q == (2 * Abs(a) + Abs(b)) \div (2 * Abs(b))
    IN IF (a < 0) = (b < 0) THEN q ELSE 0 - q

RemoveKey(f, k) == [x \in DOMAIN f \ {k} |-> f[x]]

Put(f, k, v) == (k :> v) @@ f

RECURSIVE SeqWithout(_, _)
SeqWithout(q, x) ==
    IF q = <<>> THEN <<>>
    ELSE IF Head(q) = x THEN Tail(q)
    ELSE <<Head(q)>> \o SeqWithout(Tail(q), x)

InSeq(q, x) == \E i \in 1 .. Len(q) : q[i] = x

\* Order.RemainingSize
RemainingSize(o) == o.size - o.filled_size

\* ---- order book (OrderBook, priceLevel) -----------------------------------
EmptyLevels == [p \in {} |-> 0]

NewOrderBook == [bids |-> EmptyLevels, asks |-> EmptyLevels, orders |-> {}]

Levels(bk, side) == IF side = "buy" THEN bk.bids ELSE bk.asks

WithLevels(bk, side, lv) ==
    IF side = "buy" THEN [bk EXCEPT !.bids = lv] ELSE [bk EXCEPT !.asks = lv]

\* AddOrder putting the new order at the head of its level
AddOrder_atHead(bk, o) ==
    LET lv == Levels(bk, o.side)
        old == IF o.price \in DOMAIN lv THEN lv[o.price]
               ELSE [price |-> o.price, totalSize |-> 0, orderCount |-> 0, queue |-> <<>>]
        new == [old EXCEPT !.queue = <<o.id>> \o @,
                           !.totalSize = @ + RemainingSize(o),
                           !.orderCount = @ + 1]
    IN [WithLevels(bk, o.side, Put(lv, o.price, new)) EXCEPT !.orders = @ \cup {o.id}]

\* AddOrder adding the order's whole size to the level's total
AddOrder_wholeSize(bk, o) ==
    LET lv == Levels(bk, o.side)
        old == IF o.price \in DOMAIN lv THEN lv[o.price]
               ELSE [price |-> o.price, totalSize |-> 0, orderCount |-> 0, queue |-> <<>>]
        new == [old EXCEPT !.queue = Append(@, o.id),
                           !.totalSize = @ + o.size,
                           !.orderCount = @ + 1]
    IN [WithLevels(bk, o.side, Put(lv, o.price, new)) EXCEPT !.orders = @ \cup {o.id}]

\* OrderBook.AddOrder: append to the tail of the level of the order's price
AddOrder(bk, o) ==
    LET lv == Levels(bk, o.side)
        old == IF o.price \in DOMAIN lv THEN lv[o.price]
               ELSE [price |-> o.price, totalSize |-> 0, orderCount |-> 0, queue |-> <<>>]
        new == [old EXCEPT !.queue = Append(@, o.id),
                           !.totalSize = @ + RemainingSize(o),
                           !.orderCount = @ + 1]
    IN [WithLevels(bk, o.side, Put(lv, o.price, new)) EXCEPT !.orders = @ \cup {o.id}]

\* RemoveOrder leaving the order in the lookup map ob.orders
RemoveOrder_keepsLookup(bk, o) ==
    LET lv == Levels(bk, o.side)
    IN IF o.id \notin bk.orders THEN bk
       ELSE IF o.price \notin DOMAIN lv THEN bk
       ELSE LET old == lv[o.price]
                new == IF InSeq(old.queue, o.id)
                       THEN [old EXCEPT !.queue = SeqWithout(@, o.id),
                                        !.totalSize = @ - RemainingSize(o),
                                        !.orderCount = @ - 1]
                       ELSE old
                lv2 == IF new.orderCount = 0 THEN RemoveKey(lv, o.price)
                       ELSE Put(lv, o.price, new)
            IN WithLevels(bk, o.side, lv2)

\* OrderBook.RemoveOrder: unlink the node, subtract the order's remaining size
\* as it is at the time of the call, drop the level when its count reaches 0
RemoveOrder(bk, o) ==
    LET lv == Levels(bk, o.side)
    IN IF o.id \notin bk.orders THEN bk
       ELSE IF o.price \notin DOMAIN lv THEN bk
       ELSE LET old == lv[o.price]
                new == IF InSeq(old.queue, o.id)
                       THEN [old EXCEPT !.queue = SeqWithout(@, o.id),
                                        !.totalSize = @ - RemainingSize(o),
                                        !.orderCount = @ - 1]
                       ELSE old
                lv2 == IF new.orderCount = 0 THEN RemoveKey(lv, o.price)
                       ELSE Put(lv, o.price, new)
            IN [WithLevels(bk, o.side, lv2) EXCEPT !.orders = @ \ {o.id}]

\* iteration over a Go map: the order of the keys is unspecified (here
\* ascending); the callers sort the result
RECURSIVE MapOrder(_)
MapOrder(S) ==
    IF S = {} THEN <<>>
    ELSE LET m == CHOOSE x \in S : \A y \in S : x <= y
         IN <<m>> \o MapOrder(S \ {m})

Swap(s, i, j) == [s EXCEPT ![i] = s[j], ![j] = s[i]]

RECURSIVE SortInner(_, _, _, _)
SortInner(s, i, j, desc) ==
    IF j > Len(s) THEN s
    ELSE LET better == IF desc THEN s[j] > s[i] ELSE s[j] < s[i]
         IN SortInner(IF better THEN Swap(s, i, j) ELSE s, i, j + 1, desc)

RECURSIVE SortOuter(_, _, _)
SortOuter(s, i, desc) ==
    IF i > Len(s) - 1 THEN s
    ELSE SortOuter(SortInner(s, i, i + 1, desc), i + 1, desc)

\* sortLevelsDesc leaving the levels in map order
sortLevelsDesc_unsorted(s) == s

\* sortLevelsDesc / sortLevelsAsc: exchange sort of the levels by price
sortLevelsDesc(s) == SortOuter(s, 1, TRUE)

sortLevelsAsc(s) == SortOuter(s, 1, FALSE)

\* matchableBids leaving out the bids at the price itself
matchableBids_above(bk, price) ==
    sortLevelsDesc(MapOrder({p \in DOMAIN bk.bids : p > price}))

\* OrderBook.matchableBids: bid levels at or above the price, best first
matchableBids(bk, price) ==
    sortLevelsDesc(MapOrder({p \in DOMAIN bk.bids : p >= price}))

\* matchableAsks ignoring the limit price
matchableAsks_anyPrice(bk, price) == sortLevelsAsc(MapOrder(DOMAIN bk.asks))

\* OrderBook.matchableAsks: ask levels at or below the price, best first
matchableAsks(bk, price) ==
    sortLevelsAsc(MapOrder({p \in DOMAIN bk.asks : p <= price}))

\* ---- positions (MatchingEngine.updatePosition) ----------------------------
\* a new record: margin and liquidation price keep Go's zero value.
\* entry_price, realized_pnl and margin are in units of 1/DecScale,
\* liquidation_price in units of 1/LiqScale.
NewPosition ==
    [size |-> 0, entry_price |-> 0, realized_pnl |-> 0,
     leverage |-> DefaultPositionLeverage, margin |-> 0, liquidation_price |-> 0]

\* MaintenanceMargins.GetMarginForLeverage with the default margins
\* 0.005, 0.01, 0.02, 0.05, in units of 1/MarginScale
GetMarginForLeverage(leverage) ==
    IF leverage <= 10 THEN 5
    ELSE IF leverage <= 50 THEN 10
    ELSE IF leverage <= 100 THEN 20
    ELSE 50

\* MatchingEngine.calculateLiquidationPrice (liqConfig is set at start-up):
\* entry -/+ entry / leverage * (1 - maintenance margin)
calculateLiquidationPrice(entryPrice, leverage, isLong) ==
    IF isLong
    THEN entryPrice * MarginScale
             - DecDiv(entryPrice, leverage) * (MarginScale - GetMarginForLeverage(leverage))
    ELSE entryPrice * MarginScale
             + DecDiv(entryPrice, leverage) * (MarginScale - GetMarginForLeverage(leverage))

\* updatePosition, last assignment: the liquidation price is recomputed when
\* the new size is not zero
withLiquidationPrice(p) ==
    IF p.size # 0
    THEN [p EXCEPT !.liquidation_price =
                       calculateLiquidationPrice(p.entry_price, p.leverage, p.size > 0)]
    ELSE p

\* MatchingEngine.GetPosition: the record of the trader, nil (<<>>) without one
GetPosition(pos, trader) == IF trader \in DOMAIN pos THEN <<pos[trader]>> ELSE <<>>

\* MatchingEngine.determinePositionEffect
determinePositionEffect(pos, trader, sizeChange) ==
    IF trader \notin DOMAIN pos \/ pos[trader].size = 0 THEN "open"
    ELSE IF (pos[trader].size > 0 /\ sizeChange > 0)
            \/ (pos[trader].size < 0 /\ sizeChange < 0) THEN "open"
    ELSE "close"

\* every fill counted as a purchase
newSizeOf_unsigned(p, sizeChange) == p.size + Abs(sizeChange)

\* updatePosition: the size a position has after a change of sizeChange
newSizeOf(p, sizeChange) == p.size + sizeChange

\* P&L realised on the whole fill, the part that opens the new side included
closedSizeOf_wholeFill(oldSize, sizeChange) == Abs(sizeChange)

\* P&L realised on the whole old position, whatever the fill closes
closedSizeOf_oldSize(oldSize, sizeChange) == Abs(oldSize)

\* updatePosition: the size a reducing fill closes
closedSizeOf(oldSize, sizeChange) == Min(Abs(oldSize), Abs(sizeChange))

\* updatePosition keeping the old entry price when the position flips
PositionFilled_keepsEntry(p, sizeChange, price) ==
    LET oldSize == p.size
        newSize == newSizeOf(p, sizeChange)
        closedSize == closedSizeOf(oldSize, sizeChange)
        pnl == IF oldSize > 0 THEN (Dec(price) - p.entry_price) * closedSize
               ELSE (p.entry_price - Dec(price)) * closedSize
    IN IF oldSize = 0
       THEN [p EXCEPT !.entry_price = Dec(price), !.size = newSize]
       ELSE IF (oldSize > 0 /\ sizeChange > 0) \/ (oldSize < 0 /\ sizeChange < 0)
       THEN [p EXCEPT !.entry_price =
                          DecDiv(oldSize * p.entry_price + sizeChange * Dec(price), newSize),
                      !.size = newSize]
       ELSE [p EXCEPT !.realized_pnl = @ + pnl, !.size = newSize]

\* updatePosition: entry price, realised P&L and size of the record
PositionFilled(p, sizeChange, price) ==
    LET oldSize == p.size
        newSize == newSizeOf(p, sizeChange)
        closedSize == closedSizeOf(oldSize, sizeChange)
        pnl == IF oldSize > 0 THEN (Dec(price) - p.entry_price) * closedSize
               ELSE (p.entry_price - Dec(price)) * closedSize
        flips == newSize # 0 /\ ((oldSize > 0 /\ newSize < 0) \/ (oldSize < 0 /\ newSize > 0))
    IN IF oldSize = 0
       THEN [p EXCEPT !.entry_price = Dec(price), !.size = newSize]
       ELSE IF (oldSize > 0 /\ sizeChange > 0) \/ (oldSize < 0 /\ sizeChange < 0)
       THEN [p EXCEPT !.entry_price =
                          DecDiv(oldSize * p.entry_price + sizeChange * Dec(price), newSize),
                      !.size = newSize]
       ELSE [p EXCEPT !.realized_pnl = @ + pnl,
                      !.entry_price = IF flips THEN Dec(price) ELSE @,
                      !.size = newSize]

\* the position record after updatePosition
PositionAfter(p, sizeChange, price) ==
    withLiquidationPrice(PositionFilled(p, sizeChange, price))

\* MatchingEngine.updatePosition on the engine state st: the record is created
\* when absent, updated in place, and saved to or deleted from the positions
\* table; the in-memory record stays in me.positions
PositionOf(st, trader) ==
    IF trader \in DOMAIN st.positions THEN st.positions[trader] ELSE NewPosition

StorePosition(st, trader, np) ==
    [st EXCEPT !.positions = Put(@, trader, np),
               !.db.positions = IF np.size = 0 THEN RemoveKey(@, trader)
                                ELSE Put(@, trader, np)]

\* updatePosition adding the size of the fill whatever its sign
updatePosition_unsigned(st, trader, sizeChange, price) ==
    StorePosition(st, trader,
                  PositionAfter(PositionOf(st, trader), Abs(sizeChange), price))

updatePosition(st, trader, sizeChange, price) ==
    StorePosition(st, trader, PositionAfter(PositionOf(st, trader), sizeChange, price))

\* SaveTrade: the columns of the trades table; the order ids and the new
\* positions of a trade are not stored
TradeRow(trade) ==
    [trade EXCEPT !.buyer_order_id = 0, !.seller_order_id = 0,
                  !.buyer_new_position = 0, !.seller_new_position = 0]

\* MatchingEngine.createTrade, last part: the trade record (effects as they
\* were before the updates, st; positions after them, st1 and st2), trader
\* statistics, recent-trades list, persistence
createTradeRecord(st, st1, st2, buyerOrder, sellerOrder, side, price, size) ==
    LET buyer == buyerOrder.trader_id
        seller == sellerOrder.trader_id
        trade == [id |-> Len(st.db.trades) + 1,
                  price |-> price,
                  size |-> size,
                  buyer_id |-> buyer,
                  seller_id |-> seller,
                  buyer_order_id |-> buyerOrder.id,
                  seller_order_id |-> sellerOrder.id,
                  buyer_leverage |-> 0,
                  seller_leverage |-> 0,
                  buyer_effect |-> determinePositionEffect(st.positions, buyer, size),
                  seller_effect |-> determinePositionEffect(st.positions, seller, 0 - size),
                  buyer_new_position |-> st1.positions[buyer].size,
                  seller_new_position |-> st2.positions[seller].size,
                  aggressor_side |-> side]
        tr1 == IF buyer \in DOMAIN st.traders
               THEN [st.traders EXCEPT ![buyer].trade_count = @ + 1] ELSE st.traders
        tr2 == IF seller \in DOMAIN tr1
               THEN [tr1 EXCEPT ![seller].trade_count = @ + 1] ELSE tr1
        rt == <<trade>> \o st.recentTrades
        dbt1 == IF buyer \in DOMAIN tr2 THEN Put(st2.db.traders, buyer, tr2[buyer])
                ELSE st2.db.traders
        dbt2 == IF seller \in DOMAIN tr2 THEN Put(dbt1, seller, tr2[seller]) ELSE dbt1
    IN [st2 EXCEPT !.traders = tr2,
                   !.recentTrades = IF Len(rt) > RecentTradesCap
                                    THEN SubSeq(rt, 1, RecentTradesCap) ELSE rt,
                   !.db.trades = Append(@, TradeRow(trade)),
                   !.db.traders = dbt2]

\* MatchingEngine.createTrade, second part: the seller's position, updated
\* after the buyer's (st1)
createTradeSeller(st, st1, buyerOrder, sellerOrder, side, price, size) ==
    createTradeRecord(st, st1, updatePosition(st1, sellerOrder.trader_id, 0 - size, price),
                      buyerOrder, sellerOrder, side, price, size)

\* MatchingEngine.createTrade: effects, positions (buyer first), trade record,
\* trader stats, recent-trades list, persistence.  a is the aggressor's order
\* id, r the resting order's.
createTrade(st, a, r, price, size) ==
    LET buyerOrder == IF st.orders[a].side = "buy" THEN st.orders[a] ELSE st.orders[r]
        sellerOrder == IF st.orders[a].side = "buy" THEN st.orders[r] ELSE st.orders[a]
    IN createTradeSeller(st, updatePosition(st, buyerOrder.trader_id, size, price),
                         buyerOrder, sellerOrder, st.orders[a].side, price, size)

\* ---- matching (MatchingEngine.matchOrder) ---------------------------------
OrderEvent(o) ==
    [type |-> "order", id |-> o.id, status |-> o.status, filled_size |-> o.filled_size]

TradeEvent(t) == [type |-> "trade", id |-> t.id, status |-> "", filled_size |-> t.size]

\* a fill executing at the aggressor's price
fillPrice_aggressor(aggressor, resting) == aggressor.price

\* the price at which a fill executes: the resting order's price
fillPrice(aggressor, resting) == resting.price

\* the inner loop without the self-trade test
isSelfTrade_never(aggressor, resting) == FALSE

\* the self-trade test of the inner loop
isSelfTrade(aggressor, resting) == resting.trader_id = aggressor.trader_id

\* the size of a fill: the smaller of the two remaining sizes
fillSize(aggressor, resting) == Min(RemainingSize(aggressor), RemainingSize(resting))

\* one fill of the inner loop once the trade is created (st1): filled sizes,
\* the resting order's status, its removal from the book or the level's
\* total, persistence, the handlers
fillUpdate(st1, a, r, size) ==
    LET trade == st1.recentTrades[1]
        ords == [st1.orders EXCEPT ![a].filled_size = @ + size,
                                   ![r].filled_size = @ + size]
        filled == RemainingSize(ords[r]) = 0
        ro == [ords[r] EXCEPT !.status = IF filled THEN "filled" ELSE "partial"]
        bk == IF filled THEN RemoveOrder(st1.book, ro)
              ELSE WithLevels(st1.book, ro.side,
                       [Levels(st1.book, ro.side) EXCEPT ![ro.price].totalSize = @ - size])
    IN [st1 EXCEPT !.trades = Append(@, trade),
                   !.orders = [ords EXCEPT ![r] = ro],
                   !.book = bk,
                   !.db.orders = IF filled THEN RemoveKey(@, r) ELSE Put(@, r, ro),
                   !.events = @ \o <<OrderEvent(ro), TradeEvent(trade)>>]

\* one fill of the inner loop: the aggressor a against the resting order r
fillOrder(st, a, r) ==
    fillUpdate(createTrade(st, a, r, fillPrice(st.orders[a], st.orders[r]),
                           fillSize(st.orders[a], st.orders[r])),
               a, r, fillSize(st.orders[a], st.orders[r]))

\* the inner loop: walk the nodes of one level from the head while the
\* aggressor has remaining size; q is the rest of the level's list
RECURSIVE walkLevel(_, _, _)
walkLevel(st, a, q) ==
    IF q = <<>> \/ ~(RemainingSize(st.orders[a]) > 0) THEN st
    ELSE IF isSelfTrade(st.orders[a], st.orders[Head(q)]) THEN walkLevel(st, a, Tail(q))
    ELSE walkLevel(fillOrder(st, a, Head(q)), a, Tail(q))

\* the outer loop over the matchable levels, taken when matching starts
RECURSIVE walkLevels(_, _, _)
walkLevels(st, a, ps) ==
    IF ps = <<>> \/ RemainingSize(st.orders[a]) = 0 THEN st
    ELSE LET side == IF st.orders[a].side = "buy" THEN "sell" ELSE "buy"
             q == Levels(st.book, side)[Head(ps)].queue
         IN walkLevels(walkLevel(st, a, q), a, Tail(ps))

matchOrder(st, a) ==
    LET o == st.orders[a]
        matchLevels ==
            IF o.side = "buy"
            THEN IF o.type = "market" THEN matchableAsks(st.book, MarketBuyLimit)
                 ELSE matchableAsks(st.book, o.price)
            ELSE IF o.type = "market" THEN matchableBids(st.book, 0)
                 ELSE matchableBids(st.book, o.price)
    IN walkLevels(st, a, matchLevels)

\* the status SubmitOrder leaves on the order once matching is done
statusAfterMatch(o) ==
    IF RemainingSize(o) > 0 /\ o.type = "limit"
    THEN IF o.filled_size = 0 THEN "pending" ELSE "partial"
    ELSE IF RemainingSize(o) = 0 THEN "filled"
    ELSE o.status

\* SubmitOrder never resting the order
restsAfterMatch_never(o) == FALSE

\* SubmitOrder resting every limit order, filled or not
restsAfterMatch_always(o) == o.type = "limit"

\* whether SubmitOrder rests the order in the book once matching is done
restsAfterMatch(o) == RemainingSize(o) > 0 /\ o.type = "limit"

\* SubmitOrder without the lookup of the trader
submitError_noTraderCheck(bk, tr, order) ==
    IF order.instrument # RIndex THEN "unknown instrument" ELSE ""

\* the checks SubmitOrder makes before it matches; "" when it accepts
submitError(bk, tr, order) ==
    IF order.instrument # RIndex THEN "unknown instrument"
    ELSE IF order.trader_id \notin DOMAIN tr THEN "unknown trader"
    ELSE ""

\* the checks CancelOrder makes before it removes; "" when it proceeds
cancelError(bk, orderID, instrument) ==
    IF instrument # RIndex THEN "unknown instrument"
    ELSE IF orderID \notin bk.orders THEN "order not found"
    ELSE ""

\* ---- state machine --------------------------------------------------------
\* the monitor between two scans
\* NewHub: no client is connected
NewHub ==
    [next |-> 0, clients |-> [c \in {} |-> 0],
     closed |-> [c \in {} |-> FALSE], visit |-> <<>>,
     fault |-> ""]

ScanIdle == [pc |-> "idle", mark |-> 0, todo |-> <<>>, liq |-> <<>>]

\* config.LoadOrDefault without a configuration file
DefaultConfig ==
    [starting_price |-> DefaultStartingPrice,
     insurance_fund_initial |-> Dec(InsuranceFundInitial)]

NewTrader ==
    [balance |-> Dec(StartingBalance), total_pnl |-> 0, trade_count |-> 0,
     max_leverage_used |-> 0]

\* the tables of a new database once the two traders are registered
FreshDb ==
    [orders |-> [i \in {} |-> 0], positions |-> [t \in {} |-> 0],
     trades |-> <<>>, traders |-> [t \in TraderIds |-> NewTrader],
     liquidations |-> <<>>]

Init ==
    /\ book = NewOrderBook
    /\ orders = [i \in {} |-> 0]
    /\ positions = [t \in {} |-> 0]
    /\ traders = [t \in TraderIds |-> NewTrader]
    /\ recentTrades = <<>>
    /\ db = FreshDb
    /\ events = <<>>
    /\ ret = [op |-> "init", err |-> "", id |-> 0, trades |-> <<>>]
    /\ nextId = 1
    /\ liquidations = <<>>
    /\ insuranceFund = DefaultConfig.insurance_fund_initial
    /\ scan = ScanIdle
    /\ cfg = DefaultConfig
    /\ hub = NewHub

\* the order as SubmitOrder sets it up before matching
NewOrder(in) ==
    [id |-> nextId, trader_id |-> in.trader_id,
     instrument |-> in.instrument, side |-> in.side,
     type |-> in.type, price |-> in.price, size |-> in.size,
     filled_size |-> 0, leverage |-> in.leverage, status |-> "pending"]

\* the engine's state as matchOrder sees it, with the list of trades it returns
EngineState(o) ==
    [book |-> book, orders |-> Put(orders, o.id, o),
     positions |-> positions, traders |-> traders,
     recentTrades |-> recentTrades, db |-> db, events |-> events,
     trades |-> <<>>]

\* SubmitOrder once matching is done (st1): rest the remainder of a limit
\* order, set the status, save, call the order handlers
SubmitMatched(st1, o) ==
    LET o1 == [o EXCEPT !.status = statusAfterMatch(o)]
    IN /\ book' = IF restsAfterMatch(o) THEN AddOrder(st1.book, o) ELSE st1.book
       /\ orders' = Put(st1.orders, o.id, o1)
       /\ positions' = st1.positions
       /\ traders' = st1.traders
       /\ recentTrades' = st1.recentTrades
       /\ db' = IF restsAfterMatch(o) THEN [st1.db EXCEPT !.orders = Put(@, o.id, o1)]
                ELSE st1.db
       /\ events' = Append(st1.events, OrderEvent(o1))
       /\ ret' = [op |-> "submit", err |-> "", id |-> o.id, trades |-> st1.trades]
       /\ nextId' = nextId + 1

MatchedOrder(st1) == SubmitMatched(st1, st1.orders[nextId])

\* MatchingEngine.SubmitOrder, for at most maxId accepted orders
SubmitOrderWithin(in, maxId) ==
    /\ IF submitError(book, traders, in) # ""
       THEN /\ ret' = [op |-> "submit", err |-> submitError(book, traders, in),
                       id |-> 0, trades |-> <<>>]
            /\ UNCHANGED <<book, orders, positions, traders, recentTrades, db,
                           events, nextId>>
       ELSE /\ nextId <= maxId
            /\ MatchedOrder(matchOrder(EngineState(NewOrder(in)), nextId))
    /\ UNCHANGED <<monitorVars, hub>>

\* MatchingEngine.SubmitOrder
SubmitOrder(in) == SubmitOrderWithin(in, MaxOrders)

\* MatchingEngine.CancelOrder
CancelOrder(orderID, instrument) ==
    LET err == cancelError(book, orderID, instrument)
        o1 == [orders[orderID] EXCEPT !.status = "cancelled"]
    IN IF err # ""
       THEN /\ ret' = [op |-> "cancel", err |-> err,
                       id |-> IF err = "order not found" THEN orderID ELSE 0,
                       trades |-> <<>>]
            /\ UNCHANGED <<book, orders, positions, traders, recentTrades, db,
                           events, nextId>>
            /\ UNCHANGED <<monitorVars, hub>>
       ELSE /\ book' = RemoveOrder(book, orders[orderID])
            /\ orders' = [orders EXCEPT ![orderID] = o1]
            /\ db' = [db EXCEPT !.orders = RemoveKey(@, orderID)]
            /\ events' = Append(events, OrderEvent(o1))
            /\ ret' = [op |-> "cancel", err |-> "", id |-> orderID, trades |-> <<>>]
            /\ UNCHANGED <<positions, traders, recentTrades, nextId>>
            /\ UNCHANGED <<monitorVars, hub>>

\* ---- liquidation monitor (liquidation.Engine) -----------------------------
\* MatchingEngine.GetMarkPrice: the newest recent trade's price
GetMarkPrice(rt) == IF rt # <<>> THEN rt[1].price ELSE DefaultMarkPrice

\* MatchingEngine.GetAllPositions: the records with a size other than zero
GetAllPositions(pos) == {t \in DOMAIN pos : pos[t].size # 0}

\* the orders in which a range over the map can deliver the records
Orderings(S) ==
    {q \in [1 .. Cardinality(S) -> S] : \A i, j \in DOMAIN q : q[i] = q[j] => i = j}

\* Engine.shouldLiquidate
shouldLiquidate(pos, markPrice) ==
    IF pos.size = 0 THEN FALSE
    ELSE IF pos.size > 0 THEN markPrice * LiqScale <= pos.liquidation_price
    ELSE markPrice * LiqScale >= pos.liquidation_price

\* the P&L of the close taken for the loss
liquidationLoss_asPnl(pos, markPrice) ==
    IF pos.size > 0 THEN (Dec(markPrice) - pos.entry_price) * pos.size
    ELSE (pos.entry_price - Dec(markPrice)) * Abs(pos.size)

\* Engine.liquidatePosition: the loss of the position at the mark price
liquidationLoss(pos, markPrice) ==
    IF pos.size > 0 THEN (pos.entry_price - Dec(markPrice)) * pos.size
    ELSE (Dec(markPrice) - pos.entry_price) * Abs(pos.size)

\* Engine.liquidatePosition: the liquidation record
NewLiquidation(trader, pos, markPrice) ==
    [trader_id |-> trader,
     side |-> IF pos.size > 0 THEN "buy" ELSE "sell",
     size |-> Abs(pos.size),
     entry_price |-> pos.entry_price,
     liquidation_price |-> pos.liquidation_price,
     mark_price |-> markPrice,
     leverage |-> pos.leverage,
     loss |-> liquidationLoss(pos, markPrice),
     insurance_fund_hit |-> liquidationLoss(pos, markPrice) > pos.margin]

\* the depleted branch subtracting the shortfall all the same
fundAfter_overdrawn(fund, loss, margin) ==
    IF loss > margin THEN fund - (loss - margin) ELSE fund + (margin - loss)

\* Engine.liquidatePosition: the insurance fund after a loss against a margin
fundAfter(fund, loss, margin) ==
    IF loss > margin
    THEN IF fund >= loss - margin THEN fund - (loss - margin) ELSE 0
    ELSE fund + (margin - loss)

LiquidationEvent(liq) ==
    [type |-> "liquidation", id |-> liq.trader_id, status |-> "", filled_size |-> liq.size]

\* the loss credited in place of the P&L
closePnl_asLoss(pos, markPrice) == liquidationLoss(pos, markPrice)

\* MatchingEngine.ClosePosition: realised P&L of the close at the mark price
closePnl(pos, markPrice) ==
    IF pos.size > 0 THEN (Dec(markPrice) - pos.entry_price) * pos.size
    ELSE (pos.entry_price - Dec(markPrice)) * Abs(pos.size)

\* MatchingEngine.ClosePosition: the trader credited with margin and P&L
closedTrader(tr, pos, markPrice) ==
    [tr EXCEPT !.balance = @ + pos.margin + closePnl(pos, markPrice),
               !.total_pnl = @ + closePnl(pos, markPrice)]

\* the ticker fires and checkPositions starts: read the mark price, return
\* if it is zero, else take the list of positions
ScanStart ==
    /\ scan.pc = "idle"
    /\ IF GetMarkPrice(recentTrades) = 0
       THEN scan' = [pc |-> "check", mark |-> 0, todo |-> <<>>, liq |-> <<>>]
       ELSE \E q \in Orderings(GetAllPositions(positions)) :
                scan' = [pc |-> "check", mark |-> GetMarkPrice(recentTrades),
                         todo |-> q, liq |-> <<>>]
    /\ UNCHANGED <<engineVars, liquidations, insuranceFund, cfg, hub>>

\* checkPositions, loop body: shouldLiquidate on the next position of the list
ScanCheck ==
    /\ scan.pc = "check"
    /\ scan.todo # <<>>
    /\ scan' = IF shouldLiquidate(positions[Head(scan.todo)], scan.mark)
               THEN [scan EXCEPT !.pc = "liquidate"]
               ELSE [scan EXCEPT !.todo = Tail(@)]
    /\ UNCHANGED <<engineVars, liquidations, insuranceFund, cfg, hub>>

\* liquidatePosition up to the insurance fund: loss, record, fund
ScanLiquidate ==
    /\ scan.pc = "liquidate"
    /\ scan' = [scan EXCEPT !.pc = "close",
                            !.liq = <<NewLiquidation(Head(scan.todo),
                                         positions[Head(scan.todo)], scan.mark)>>]
    /\ insuranceFund' = fundAfter(insuranceFund,
                             liquidationLoss(positions[Head(scan.todo)], scan.mark),
                             positions[Head(scan.todo)].margin)
    /\ UNCHANGED <<engineVars, liquidations, cfg, hub>>

\* MatchingEngine.ClosePosition when trader t has a position: balance and
\* deletion, in memory and in the tables
ClosePosition(t, markPrice) ==
    /\ traders' = IF t \in DOMAIN traders
                  THEN [traders EXCEPT ![t] = closedTrader(@, positions[t], markPrice)]
                  ELSE traders
    /\ positions' = RemoveKey(positions, t)
    /\ db' = [db EXCEPT !.traders = IF t \in DOMAIN traders
                                    THEN Put(@, t, closedTrader(traders[t], positions[t],
                                                                markPrice))
                                    ELSE @,
                        !.positions = RemoveKey(@, t)]

\* liquidatePosition, the call of ClosePosition: when there is no position
\* to close it returns at once, without the handlers
ScanClose ==
    /\ scan.pc = "close"
    /\ IF Head(scan.todo) \notin DOMAIN positions \/ positions[Head(scan.todo)].size = 0
       THEN /\ UNCHANGED <<traders, positions, db>>
            /\ scan' = [scan EXCEPT !.pc = "check", !.todo = Tail(@), !.liq = <<>>]
       ELSE /\ ClosePosition(Head(scan.todo), scan.mark)
            /\ scan' = [scan EXCEPT !.pc = "notify"]
    /\ UNCHANGED <<book, orders, recentTrades, events, ret, nextId, liquidations,
                   insuranceFund, cfg, hub>>

\* MatchingEngine.AddLiquidation: the history, newest first, and the table
AddLiquidation(liq) ==
    /\ liquidations' = IF Len(liquidations) + 1 > LiquidationsCap
                       THEN SubSeq(<<liq>> \o liquidations, 1, LiquidationsCap)
                       ELSE <<liq>> \o liquidations
    /\ db' = [db EXCEPT !.liquidations = Append(@, liq)]

\* liquidatePosition, the handlers: AddLiquidation, then the broadcast
ScanNotify ==
    /\ scan.pc = "notify"
    /\ AddLiquidation(scan.liq[1])
    /\ events' = Append(events, LiquidationEvent(scan.liq[1]))
    /\ scan' = [scan EXCEPT !.pc = "check", !.todo = Tail(@), !.liq = <<>>]
    /\ UNCHANGED <<book, orders, positions, traders, recentTrades, ret, nextId,
                   insuranceFund, cfg, hub>>

\* checkPositions returns
ScanEnd ==
    /\ scan.pc = "check"
    /\ scan.todo = <<>>
    /\ scan' = ScanIdle
    /\ UNCHANGED <<engineVars, liquidations, insuranceFund, cfg, hub>>

\* ---- inputs and specifications --------------------------------------------
\* the orders a caller hands to SubmitOrder: the well-formed ones, and limit
\* orders with one field outside the range the intake contract allows
Shapes ==
    [type : {"limit"}, price : Prices, size : Sizes, leverage : {ValidLeverage}]
    \cup [type : {"market"}, price : {0}, size : Sizes, leverage : {ValidLeverage}]
    \cup {[type |-> "limit", price |-> 0, size |-> 1, leverage |-> ValidLeverage],
          [type |-> "limit", price |-> 1, size |-> 0, leverage |-> ValidLeverage],
          [type |-> "limit", price |-> 1, size |-> 1, leverage |-> 0]}

IntakeShapes ==
    [type : {"limit"}, price : {1}, size : Sizes, leverage : {ValidLeverage}]
    \cup {[type |-> "market", price |-> 0, size |-> 1, leverage |-> ValidLeverage]}

OrderInput(trader, instrument, side, sh) ==
    [trader_id |-> trader, instrument |-> instrument, side |-> side,
     type |-> sh.type, price |-> sh.price, size |-> sh.size,
     leverage |-> sh.leverage]

\* Spec: the calls that pass the checks of SubmitOrder and CancelOrder (a
\* call that fails them returns before it touches the engine)
Submit ==
    \E t \in TraderIds, side \in Sides, sh \in Shapes :
        SubmitOrder(OrderInput(t, RIndex, side, sh))

Cancel == \E id \in book.orders : CancelOrder(id, RIndex)

Next == Submit \/ Cancel

Spec == Init /\ [][Next]_vars

\* SpecIntake: every call, the failing ones included, over well-formed orders
\* at one price
SubmitAny ==
    \E t \in TraderIds \cup {UnknownTrader}, ins \in Instruments, side \in Sides,
       sh \in IntakeShapes :
        SubmitOrder(OrderInput(t, ins, side, sh))

CancelAny == \E id \in OrderIds, ins \in Instruments : CancelOrder(id, ins)

NextIntake == SubmitAny \/ CancelAny

SpecIntake == Init /\ [][NextIntake]_vars

\* SpecLiq: the engine started on a new database or on the database of an
\* earlier run, in which trader B sold size k at price p to trader A (both
\* orders filled); limit orders of the two traders, the monitor running
\* beside them, a configured insurance fund between 0 and MaxInsuranceFund
\* and a configured starting price
LiqShapes ==
    [type : {"limit"}, price : Prices, size : Sizes, leverage : {ValidLeverage}]
    \cup {[type |-> "limit", price |-> 0, size |-> 1, leverage |-> ValidLeverage]}

\* the starting prices a configuration file sets (Validate wants them positive)
StartingPrices == {DefaultStartingPrice, MaxPrice}

\* the tables an earlier run leaves after that one trade
EarlierRunDb(k, p) ==
    [orders |-> [i \in {} |-> 0],
     positions |-> [t \in TraderIds |->
                      PositionAfter(NewPosition, IF t = "A" THEN k ELSE 0 - k, p)],
     trades |-> <<[id |-> 1, price |-> p, size |-> k,
                   buyer_id |-> "A", seller_id |-> "B",
                   buyer_order_id |-> 0, seller_order_id |-> 0,
                   buyer_leverage |-> 0, seller_leverage |-> 0,
                   buyer_effect |-> "open", seller_effect |-> "open",
                   buyer_new_position |-> 0, seller_new_position |-> 0,
                   aggressor_side |-> "buy"]>>,
     traders |-> [t \in TraderIds |-> [NewTrader EXCEPT !.trade_count = 1]],
     liquidations |-> <<>>]

\* GetRecentTrades / GetRecentLiquidations: the newest rows first
NewestFirst(rows, limit) ==
    [i \in 1 .. Min(Len(rows), limit) |-> rows[Len(rows) + 1 - i]]

\* GetOpenOrders: the rows with status 'open', oldest first
GetOpenOrders(d) == {i \in DOMAIN d.orders : d.orders[i].status = "open"}

\* LoadFromDatabase: the open orders are added to the book, oldest first
RECURSIVE LoadOrders(_, _, _)
LoadOrders(bk, d, ids) ==
    IF ids = <<>> THEN bk
    ELSE LoadOrders(AddOrder(bk, d.orders[Head(ids)]), d, Tail(ids))

\* NewMatchingEngine, RegisterInstrument, LoadFromDatabase, NewEngine: the
\* server started on the tables d
LoadedFrom(d) ==
    /\ db = d
    /\ traders = db.traders
    /\ positions = db.positions
    /\ recentTrades = NewestFirst(db.trades, RecentTradesCap)
    /\ liquidations = NewestFirst(db.liquidations, LiquidationsCap)
    /\ orders = [i \in GetOpenOrders(db) |-> db.orders[i]]
    /\ book = LoadOrders(NewOrderBook, db, MapOrder(GetOpenOrders(db)))
    /\ events = <<>>
    /\ ret = [op |-> "init", err |-> "", id |-> 0, trades |-> <<>>]
    /\ nextId = 1
    /\ cfg \in [starting_price : StartingPrices,
                 insurance_fund_initial :
                     {Dec(f) : f \in 0 .. MaxInsuranceFund} \cup {Dec(1) \div 2}]
    /\ insuranceFund = cfg.insurance_fund_initial
    /\ scan = ScanIdle
    /\ hub = NewHub

InitLoaded ==
    \E d \in {FreshDb} \cup {EarlierRunDb(k, p) : k \in Sizes, p \in Prices} :
        LoadedFrom(d)

SubmitLiq ==
    \E t \in TraderIds, side \in Sides, sh \in LiqShapes :
        SubmitOrderWithin(OrderInput(t, RIndex, side, sh), MaxLiqOrders)

NextLiq ==
    \/ SubmitLiq
    \/ Cancel
    \/ ScanStart
    \/ ScanCheck
    \/ ScanLiquidate
    \/ ScanClose
    \/ ScanNotify
    \/ ScanEnd

SpecLiq == InitLoaded /\ [][NextLiq]_vars

\* SpecScan: the server started on the tables of an earlier run with a third
\* trader C, in which A bought 2 from B and 1 from C at price 1 and then sold
\* 1 to B at price 2; the monitor, and limit orders of A and B beside it
TradeRowOf(id, buyer, seller, price, size, buyerEffect, sellerEffect) ==
    [id |-> id, price |-> price, size |-> size,
     buyer_id |-> buyer, seller_id |-> seller,
     buyer_order_id |-> 0, seller_order_id |-> 0,
     buyer_leverage |-> 0, seller_leverage |-> 0,
     buyer_effect |-> buyerEffect, seller_effect |-> sellerEffect,
     buyer_new_position |-> 0, seller_new_position |-> 0,
     aggressor_side |-> "buy"]

ThreeTraderDb ==
    [orders |-> [i \in {} |-> 0],
     positions |->
         [t \in {"A", "B", "C"} |->
            IF t = "A"
            THEN PositionAfter(PositionAfter(PositionAfter(NewPosition, 2, 1), 1, 1),
                               0 - 1, 2)
            ELSE IF t = "B"
            THEN PositionAfter(PositionAfter(NewPosition, 0 - 2, 1), 1, 2)
            ELSE PositionAfter(NewPosition, 0 - 1, 1)],
     trades |-> <<TradeRowOf(1, "A", "B", 1, 2, "open", "open"),
                  TradeRowOf(2, "A", "C", 1, 1, "open", "open"),
                  TradeRowOf(3, "B", "A", 2, 1, "close", "close")>>,
     traders |->
         [t \in {"A", "B", "C"} |->
            [NewTrader EXCEPT !.trade_count = IF t = "A" THEN 3
                                              ELSE IF t = "B" THEN 2 ELSE 1]],
     liquidations |-> <<>>]

InitScan == LoadedFrom(ThreeTraderDb)

SubmitScan ==
    \E t \in TraderIds, side \in Sides, sh \in LiqShapes :
        SubmitOrderWithin(OrderInput(t, RIndex, side, sh), MaxLiqOrders)

NextScan ==
    \/ SubmitScan
    \/ ScanStart
    \/ ScanCheck
    \/ ScanLiquidate
    \/ ScanClose
    \/ ScanNotify
    \/ ScanEnd

SpecScan == InitScan /\ [][NextScan]_vars

\* SpecThree: the same tables, the limit orders of all three traders and no
\* monitor
SubmitThree ==
    \E t \in DOMAIN ThreeTraderDb.traders, side \in Sides, sh \in LiqShapes :
        SubmitOrderWithin(OrderInput(t, RIndex, side, sh), MaxLiqOrders)

NextThree == SubmitThree \/ Cancel

SpecThree == InitScan /\ [][NextThree]_vars

\* SpecExample: a new database, limit orders of size 1 at the prices 99 and
\* 100 with leverage 100
ExampleShapes == [type : {"limit"}, price : {99, 100}, size : {1}, leverage : {100}]

SubmitExample ==
    \E t \in TraderIds, side \in Sides, sh \in ExampleShapes :
        SubmitOrder(OrderInput(t, RIndex, side, sh))

NextExample == SubmitExample \/ Cancel

SpecExample == Init /\ [][NextExample]_vars

\* ---- shutdown, crash and restart --------------------------------------------
\* main on the tables d: every in-memory structure is rebuilt by
\* LoadFromDatabase, the fund by NewEngine, the hub by NewHub; no handler has
\* been called yet. Order ids stay fresh (uuid.New).
RestartFrom(d) ==
    /\ db' = d
    /\ traders' = d.traders
    /\ positions' = d.positions
    /\ recentTrades' = NewestFirst(d.trades, RecentTradesCap)
    /\ liquidations' = NewestFirst(d.liquidations, LiquidationsCap)
    /\ orders' = [i \in GetOpenOrders(d) |-> d.orders[i]]
    /\ book' = LoadOrders(NewOrderBook, d, MapOrder(GetOpenOrders(d)))
    /\ events' = <<>>
    /\ ret' = [op |-> "init", err |-> "", id |-> 0, trades |-> <<>>]
    /\ insuranceFund' = cfg.insurance_fund_initial
    /\ scan' = ScanIdle
    /\ hub' = NewHub
    /\ UNCHANGED cfg

\* the server is stopped between two operations and started again
Restart ==
    /\ RestartFrom(db)
    /\ UNCHANGED nextId

\* the writes of one fill, in the order the code makes them: 1 the buyer's
\* position, 2 the seller's position, 3 the trade, 4 the buyer's trader
\* record, 5 the seller's trader record, 6 the resting order. PartialDb is
\* the tables after the first k of them (d0 before the fill, d1 after it).
PartialDb(d0, d1, buyer, seller, k) ==
    [d0 EXCEPT
        !.positions = IF k >= 2 THEN d1.positions
                      ELSE IF k = 1
                      THEN IF buyer \in DOMAIN d1.positions
                           THEN Put(@, buyer, d1.positions[buyer])
                           ELSE RemoveKey(@, buyer)
                      ELSE @,
        !.trades = IF k >= 3 THEN d1.trades ELSE @,
        !.traders = IF k >= 5 THEN d1.traders
                    ELSE IF k = 4 THEN [@ EXCEPT ![buyer] = d1.traders[buyer]]
                    ELSE @,
        !.orders = IF k >= 6 THEN d1.orders ELSE @]

\* the process dies after k writes of the first fill of a submit (st0 is the
\* engine as matchOrder finds it, full the outcome the submit would have had)
\* and is started again
CrashAfter(st0, full, k) ==
    /\ full.trades # <<>>
    /\ RestartFrom(PartialDb(st0.db,
                             fillOrder(st0, nextId,
                                 IF full.trades[1].aggressor_side = "buy"
                                 THEN full.trades[1].seller_order_id
                                 ELSE full.trades[1].buyer_order_id).db,
                             full.trades[1].buyer_id, full.trades[1].seller_id, k))
    /\ nextId' = nextId + 1

RestartShapes == [type : {"limit"}, price : Prices, size : Sizes, leverage : {ValidLeverage}]

SubmitRestart ==
    \E t \in TraderIds, side \in Sides, sh \in RestartShapes :
        SubmitOrderWithin(OrderInput(t, RIndex, side, sh), MaxRestartOrders)

CrashInFill ==
    \E t \in TraderIds, side \in Sides, sh \in RestartShapes, k \in 1 .. 5 :
        /\ nextId <= MaxRestartOrders
        /\ CrashAfter(EngineState(NewOrder(OrderInput(t, RIndex, side, sh))),
                      matchOrder(EngineState(NewOrder(OrderInput(t, RIndex, side, sh))),
                                 nextId),
                      k)

NextRestart ==
    \/ SubmitRestart
    \/ Cancel
    \/ Restart
    \/ CrashInFill

SpecRestart == Init /\ [][NextRestart]_vars

\* ---- the order book on its own ----------------------------------------------
\* a caller's order: any side, price and size, part of it already filled
BookOrder(id, side, price, size, filled) ==
    [NewOrder(OrderInput("A", RIndex, side,
                         [type |-> "limit", price |-> price, size |-> size,
                          leverage |-> ValidLeverage]))
        EXCEPT !.id = id, !.filled_size = filled,
               !.status = IF filled = 0 THEN "pending" ELSE "partial"]

\* OrderBook.AddOrder called with a new order
BookAdd ==
    \E side \in Sides, price \in Prices, size \in Sizes, filled \in 0 .. MaxSize :
        /\ filled < size
        /\ nextId <= MaxBookOrders
        /\ book' = AddOrder(book, BookOrder(nextId, side, price, size, filled))
        /\ orders' = Put(orders, nextId, BookOrder(nextId, side, price, size, filled))
        /\ ret' = [op |-> "add", err |-> "", id |-> nextId, trades |-> <<>>]
        /\ nextId' = nextId + 1
        /\ UNCHANGED <<positions, traders, recentTrades, db, events, monitorVars, hub>>

\* OrderBook.RemoveOrder called with any id: false when the book has no such
\* order
BookRemove ==
    \E id \in 1 .. MaxBookOrders :
        /\ book' = IF id \in book.orders THEN RemoveOrder(book, orders[id]) ELSE book
        /\ ret' = [op |-> "remove", err |-> IF id \in book.orders THEN "" ELSE "not found",
                   id |-> id, trades |-> <<>>]
        /\ UNCHANGED <<orders, nextId, positions, traders, recentTrades, db, events,
                       monitorVars, hub>>

NextBook == BookAdd \/ BookRemove

SpecBook == Init /\ [][NextBook]_vars

\* ---- market queries ---------------------------------------------------------
\* the loop of GetOpenInterestBreakdown over the records S of me.positions:
\* a long position is counted and its size added to TotalOI, a short
\* position is only counted
RECURSIVE openInterestOver(_, _)
openInterestOver(pos, S) ==
    IF S = {} THEN [total_oi |-> 0, long_positions |-> 0, short_positions |-> 0]
    ELSE LET t == CHOOSE x \in S : TRUE
             rest == openInterestOver(pos, S \ {t})
         IN IF pos[t].size = 0 THEN rest
            ELSE IF pos[t].size > 0
            THEN [rest EXCEPT !.long_positions = @ + 1, !.total_oi = @ + pos[t].size]
            ELSE [rest EXCEPT !.short_positions = @ + 1]

\* MatchingEngine.GetOpenInterestBreakdown
GetOpenInterestBreakdown(pos) == openInterestOver(pos, DOMAIN pos)

\* the open-interest loop of GetMarketStats: the absolute sizes added up
RECURSIVE marketOpenInterest(_, _)
marketOpenInterest(pos, S) ==
    IF S = {} THEN 0
    ELSE LET t == CHOOSE x \in S : TRUE
         IN Abs(pos[t].size) + marketOpenInterest(pos, S \ {t})

\* MatchingEngine.GetMarketStats, the prices and the open interest
GetMarketStats(pos, rt) ==
    [last_price |-> GetMarkPrice(rt), mark_price |-> GetMarkPrice(rt),
     open_interest |-> marketOpenInterest(pos, DOMAIN pos)]

\* ---- positions larger than a balance -----------------------------------------
\* orders whose size is about the starting balance: SubmitOrder checks no
\* order against the trader's balance
BalanceShapes ==
    [type : {"limit"}, price : Prices,
     size : {StartingBalance, StartingBalance + 1}, leverage : {ValidLeverage}]

SubmitBalance ==
    \E t \in TraderIds, side \in Sides, sh \in BalanceShapes :
        SubmitOrderWithin(OrderInput(t, RIndex, side, sh), MaxOrders)

NextBalance ==
    \/ SubmitBalance
    \/ Cancel
    \/ ScanStart
    \/ ScanCheck
    \/ ScanLiquidate
    \/ ScanClose
    \/ ScanNotify
    \/ ScanEnd

SpecBalance == Init /\ [][NextBalance]_vars

\* ---- WebSocket hub (api.Hub, api.Client) ---------------------------------
\* What the hub carries is the index into events of a handler call (main
\* turns each call into one Hub.Broadcast), or ChannelMsg for a message of
\* BroadcastToChannel. hub.next counts the messages Run has taken from
\* h.broadcast: the channel holds the next MaxBroadcastBuffer events, and a
\* Broadcast beyond them is a send still blocked inside the handler.
\* hub.closed holds the clients whose send buffer has been closed, each with
\* its subscription to the channel,
\* hub.visit the clients a running BroadcastToChannel has still to visit, and
\* hub.fault the run-time panic of a send, if one happened.
\* Clients are the Client objects: each connection registers once.
Clients == {"c1", "c2"}

ChannelMsg == 0

\* NewClient: an empty send buffer, no subscription
NewClient == [send |-> <<>>, subscribed |-> FALSE]

\* the buffered channel client.send accepts one more message
HasRoom(cl) == Len(cl.send) < MaxSendBuffer

\* Hub.Broadcast has returned for every event: nothing waits outside h.broadcast
Returned == Len(events) - hub.next <= MaxBroadcastBuffer

\* Hub.Run, case register
HubRegister ==
    \E c \in Clients \ (DOMAIN hub.clients \cup DOMAIN hub.closed) :
        /\ hub.visit = <<>>
        /\ hub' = [hub EXCEPT !.clients =
                      [d \in DOMAIN hub.clients \cup {c} |->
                          IF d = c THEN NewClient ELSE hub.clients[d]]]
        /\ UNCHANGED <<engineVars, monitorVars>>

\* Hub.Run, case unregister (ReadPump's deferred send): the client is deleted
\* and its buffer closed
\* close(client.send) for the clients of S
closeSend(S) ==
    [d \in DOMAIN hub.closed \cup S |->
        IF d \in DOMAIN hub.closed THEN hub.closed[d] ELSE hub.clients[d].subscribed]

HubUnregister ==
    \E c \in DOMAIN hub.clients :
        /\ hub.visit = <<>>
        /\ hub' = [hub EXCEPT !.clients = RemoveKey(hub.clients, c),
                              !.closed = closeSend({c})]
        /\ UNCHANGED <<engineVars, monitorVars>>

\* ReadPump: a subscribe or unsubscribe message of the client
ReadPump ==
    \E c \in DOMAIN hub.clients, typ \in {"subscribe", "unsubscribe"} :
        /\ hub' = [hub EXCEPT !.clients[c].subscribed = (typ = "subscribe")]
        /\ UNCHANGED <<engineVars, monitorVars>>

\* WritePump: the next message of client.send goes out on the connection
WritePump ==
    \E c \in DOMAIN hub.clients :
        /\ hub.clients[c].send # <<>>
        /\ hub' = [hub EXCEPT !.clients[c].send = Tail(@)]
        /\ UNCHANGED <<engineVars, monitorVars>>

\* mutant of dispatchReady: a plain send, which waits for room in every buffer
dispatchReady_waits(clients) == \A c \in DOMAIN clients : HasRoom(clients[c])

\* Run's inner select has a default case: no client makes the loop wait
dispatchReady(clients) == TRUE

\* the loop of Run's broadcast case: the message goes into every buffer with
\* room, a client without room is closed and deleted
broadcastTo(clients, msg) ==
    [c \in {d \in DOMAIN clients : HasRoom(clients[d])} |->
        [clients[c] EXCEPT !.send = Append(@, msg)]]

\* Hub.Run, case broadcast
HubDispatch ==
    /\ hub.next < Len(events)
    /\ dispatchReady(hub.clients)
    /\ hub' = [hub EXCEPT
                  !.next = @ + 1,
                  !.clients = broadcastTo(hub.clients, hub.next + 1),
                  !.closed = closeSend({c \in DOMAIN hub.clients : ~HasRoom(hub.clients[c])})]
    /\ UNCHANGED <<engineVars, monitorVars>>

\* the loop of BroadcastToChannel: a subscribed client with room gets the
\* message, a subscribed client without room is skipped
channelTo(clients, msg) ==
    [c \in DOMAIN clients |->
        IF clients[c].subscribed /\ HasRoom(clients[c])
        THEN [clients[c] EXCEPT !.send = Append(@, msg)]
        ELSE clients[c]]

\* Hub.BroadcastToChannel, run without interruption
BroadcastToChannel ==
    /\ hub.visit = <<>>
    /\ hub' = [hub EXCEPT !.clients = channelTo(hub.clients, ChannelMsg)]
    /\ UNCHANGED <<engineVars, monitorVars>>

HubShapes == [type : {"limit"}, price : {1}, size : {1}, leverage : {ValidLeverage}]

\* a submit enters once the one before has left its handlers
SubmitHub ==
    /\ Returned
    /\ \E t \in TraderIds, side \in Sides, sh \in HubShapes :
           SubmitOrderWithin(OrderInput(t, RIndex, side, sh), MaxHubOrders)

NextHub ==
    \/ SubmitHub
    \/ HubRegister
    \/ HubUnregister
    \/ ReadPump
    \/ WritePump
    \/ HubDispatch
    \/ BroadcastToChannel

SpecHub == Init /\ [][NextHub]_vars

\* Run is a goroutine of its own and select picks among its ready cases at
\* random: the broadcast case is taken if it stays ready
SpecHubFair == SpecHub /\ WF_vars(HubDispatch)

\* BroadcastToChannel step by step. It holds h.mu.RLock, which excludes the
\* register and unregister cases of Run (Lock) but not the broadcast case
\* (RLock as well), and that case closes buffers and deletes from h.clients.
\* ChannelStart: the range over h.clients begins.
ChannelStart ==
    /\ hub.visit = <<>>
    /\ DOMAIN hub.clients # {}
    /\ \E q \in Orderings(DOMAIN hub.clients) : hub' = [hub EXCEPT !.visit = q]
    /\ UNCHANGED <<engineVars, monitorVars>>

\* ChannelVisit: the loop body for the next client of the range. When Run
\* has closed and deleted the client in the meantime, the range (a read of
\* the map racing with the delete) either no longer yields it or still does,
\* and then the send to a subscribed client hits the closed buffer.
ChannelVisit ==
    /\ hub.visit # <<>>
    /\ IF Head(hub.visit) \in DOMAIN hub.clients
       THEN hub' = [hub EXCEPT
                       !.visit = Tail(@),
                       !.clients = [d \in DOMAIN hub.clients |->
                                       IF d = Head(hub.visit)
                                       THEN channelTo(hub.clients, ChannelMsg)[d]
                                       ELSE hub.clients[d]]]
       ELSE \/ hub' = [hub EXCEPT !.visit = Tail(@)]
            \/ hub' = [hub EXCEPT
                           !.visit = Tail(@),
                           !.fault = IF hub.closed[Head(hub.visit)]
                                     THEN "send on closed channel" ELSE @]
    /\ UNCHANGED <<engineVars, monitorVars>>

NextHubRace ==
    \/ SubmitHub
    \/ HubRegister
    \/ HubUnregister
    \/ ReadPump
    \/ WritePump
    \/ HubDispatch
    \/ ChannelStart
    \/ ChannelVisit

SpecHubRace == Init /\ [][NextHubRace]_vars

\* ---- vocabulary of the properties -----------------------------------------
AggressorId(t) == IF t.aggressor_side = "buy" THEN t.buyer_order_id ELSE t.seller_order_id

RestingId(t) == IF t.aggressor_side = "buy" THEN t.seller_order_id ELSE t.buyer_order_id

TradeSet(ts) == {ts[i] : i \in 1 .. Len(ts)}

\* the queue an order would be in: the level of its price on its side
QueueOf(bk, o) ==
    IF o.price \in DOMAIN Levels(bk, o.side) THEN Levels(bk, o.side)[o.price].queue
    ELSE <<>>

\* the order is queued at some level of the book
Queued(bk, id) ==
    \/ \E p \in DOMAIN bk.bids : InSeq(bk.bids[p].queue, id)
    \/ \E p \in DOMAIN bk.asks : InSeq(bk.asks[p].queue, id)

IndexOf(q, x) == CHOOSE i \in 1 .. Len(q) : q[i] = x

\* a SubmitOrder call was accepted in this step / is the last operation
SubmitStep == ret'.op = "submit" /\ ret'.err = "" /\ nextId' = nextId + 1

Submitted == ret.op = "submit" /\ ret.err = ""

\* the size of a trader's position, zero without a record
SizeOf(pos, x) == IF x \in DOMAIN pos THEN pos[x].size ELSE 0

\* what a trade adds to the position of trader x
SignedFill(t, x) ==
    (IF t.buyer_id = x THEN t.size ELSE 0) - (IF t.seller_id = x THEN t.size ELSE 0)

\* the sum of SignedFill over the first n trades of ts
RECURSIVE SumFills(_, _, _)
SumFills(ts, x, n) ==
    IF n = 0 THEN 0 ELSE SumFills(ts, x, n - 1) + SignedFill(ts[n], x)

\* every order submitted so far is one the intake contract allows
WellFormedOrders ==
    \A id \in DOMAIN orders :
        /\ orders[id].size > 0
        /\ orders[id].leverage \in 1 .. MaxLeverage
        /\ orders[id].type = "limit" => orders[id].price > 0

\* the resting order o can be matched by the aggressor agg
Crossable(agg, o) ==
    /\ o.side # agg.side
    /\ \/ agg.type = "market"
       \/ agg.side = "buy" /\ o.price <= agg.price
       \/ agg.side = "sell" /\ o.price >= agg.price

\* ---- C1 ---------------------------------------------------------------------
\* C1: every trade has buyer_id different from seller_id, and a SubmitOrder
\* call leaves every resting order of the submitting trader as it was: same
\* filled size and status, still in the book, at the same place of its queue
\* relative to the orders that remain.
C1_SkippedKeepsPlace(a, id) ==
    LET o == orders[id]
        oldq == QueueOf(book, o)
        newq == QueueOf(book', o)
        Stays(x) == x \in book'.orders
        NotNew(x) == x # a
    IN /\ orders'[id] = o
       /\ id \in book'.orders
       /\ InSeq(newq, id)
       /\ SelectSeq(newq, NotNew) = SelectSeq(oldq, Stays)

C1_Step ==
    /\ \A t \in TradeSet(recentTrades') : t.buyer_id # t.seller_id
    /\ SubmitStep =>
         \A id \in book.orders :
             orders[id].trader_id = orders'[ret'.id].trader_id
                 => C1_SkippedKeepsPlace(ret'.id, id)

C1_NoSelfTrade == [][C1_Step]_vars

\* an aggressor traded at a price behind a better-priced resting order of its
\* own trader, which is still in the book
C1_Witness ==
    /\ Submitted
    /\ \E t \in TradeSet(ret.trades), id \in book.orders :
          /\ t.price >= 1
          /\ orders[id].trader_id = orders[ret.id].trader_id
          /\ orders[id].side # orders[ret.id].side
          /\ IF orders[ret.id].side = "buy" THEN orders[id].price < t.price
             ELSE orders[id].price > t.price

\* ---- C2 ---------------------------------------------------------------------
\* C2: the price of every trade is the limit price of the resting order it
\* was matched against.
C2_RestingPrice ==
    \A t \in TradeSet(recentTrades) : t.price = orders[RestingId(t)].price

\* a trade whose aggressor names another price than the resting order's
C2_Witness ==
    \E t \in TradeSet(recentTrades) :
        /\ orders[AggressorId(t)].price # t.price
        /\ orders[AggressorId(t)].type = "market"

\* ---- C3 ---------------------------------------------------------------------
\* C3: a trade whose aggressor is a limit buy at P has price <= P, one whose
\* aggressor is a limit sell at P has price >= P.
C3_LimitRespected ==
    \A t \in TradeSet(recentTrades) :
        LET agg == orders[AggressorId(t)]
        IN agg.type = "limit" =>
              IF agg.side = "buy" THEN t.price <= agg.price ELSE t.price >= agg.price

\* a limit aggressor traded, has size left, and liquidity of another trader
\* beyond its limit stays in the book
C3_Witness ==
    /\ Submitted
    /\ orders[ret.id].type = "limit"
    /\ ret.trades # <<>>
    /\ RemainingSize(orders[ret.id]) > 0
    /\ \E id \in book.orders :
          /\ orders[id].side # orders[ret.id].side
          /\ orders[id].trader_id # orders[ret.id].trader_id
          /\ ~Crossable(orders[ret.id], orders[id])

\* ---- C4 ---------------------------------------------------------------------
\* C4: the trades SubmitOrder returns are in execution order, a buy
\* aggressor's trade prices never decrease and a sell aggressor's never
\* increase, and when the aggressor is not fully filled no crossable resting
\* order of another trader is left in the book.
C4_BestPriceFirst ==
    Submitted =>
        LET agg == orders[ret.id]
            n == Len(ret.trades)
        IN /\ n <= Len(recentTrades)
           /\ \A i \in 1 .. n : ret.trades[i] = recentTrades[n - i + 1]
           /\ \A i \in 1 .. n : AggressorId(ret.trades[i]) = ret.id
           /\ \A i \in 1 .. n - 1 :
                 IF agg.side = "buy" THEN ret.trades[i].price <= ret.trades[i + 1].price
                 ELSE ret.trades[i].price >= ret.trades[i + 1].price
           /\ RemainingSize(agg) > 0 =>
                 \A id \in book.orders :
                     orders[id].trader_id # agg.trader_id => ~Crossable(agg, orders[id])

\* a sell aggressor filled at two different prices
C4_Witness ==
    /\ Submitted
    /\ orders[ret.id].side = "sell"
    /\ Len(ret.trades) >= 2
    /\ ret.trades[1].price > ret.trades[Len(ret.trades)].price

\* ---- C5 ---------------------------------------------------------------------
\* C5 as stated: once an aggressor has filled a resting order R, no order of
\* another trader than the aggressor that was added to R's level before R is
\* left in the book, and an R that is filled in part is at the head of its
\* level.  (Order ids grow with the time of submission; stated of books
\* that hold well-formed orders only.)
C5_PartialAtHead ==
    (/\ Submitted
     /\ \A id \in DOMAIN orders :
           /\ orders[id].size > 0
           /\ orders[id].leverage \in 1 .. MaxLeverage
           /\ orders[id].type = "limit" => orders[id].price > 0) =>
        \A t \in TradeSet(ret.trades) :
            LET r == RestingId(t)
                q == QueueOf(book, orders[r])
            IN /\ \A x \in book.orders :
                     (/\ x < r
                      /\ orders[x].side = orders[r].side
                      /\ orders[x].price = orders[r].price
                      /\ orders[x].trader_id # orders[ret.id].trader_id)
                         => RemainingSize(orders[x]) = 0
               /\ RemainingSize(orders[r]) > 0 => (q # <<>> /\ q[1] = r)

\* C5 amended: when an aggressor fills a resting order R, every order of another
\* trader than the aggressor that was added to R's level before R is
\* completely filled; a resting order that is filled in part stays in its
\* queue, ahead of every order added after it, with only orders of the
\* aggressor's trader before it.
C5_Step ==
    SubmitStep =>
        \A t \in TradeSet(ret'.trades) :
            LET r == RestingId(t)
                agg == orders'[ret'.id]
                oldq == QueueOf(book, orders[r])
                newq == QueueOf(book', orders[r])
            IN /\ InSeq(oldq, r)
               /\ \A i \in 1 .. Len(oldq) :
                     (oldq[i] < r /\ orders[oldq[i]].trader_id # agg.trader_id)
                         => RemainingSize(orders'[oldq[i]]) = 0
               /\ RemainingSize(orders'[r]) > 0 =>
                     /\ orders'[r].status = "partial"
                     /\ InSeq(newq, r)
                     /\ \A i \in 1 .. Len(newq) :
                           /\ i < IndexOf(newq, r) =>
                                 (newq[i] < r /\ orders'[newq[i]].trader_id = agg.trader_id)
                           /\ i > IndexOf(newq, r) => newq[i] > r

C5_TimePriority == [][C5_Step]_vars

\* a resting order was filled in part behind a skipped order of the
\* aggressor's trader
C5_Witness ==
    /\ Submitted
    /\ \E t \in TradeSet(ret.trades) :
          LET q == QueueOf(book, orders[RestingId(t)])
          IN /\ Len(q) >= 2
             /\ q[2] = RestingId(t)
             /\ orders[q[2]].status = "partial"
             /\ orders[q[1]].trader_id = orders[ret.id].trader_id

\* ---- C6 ---------------------------------------------------------------------
\* C6: when SubmitOrder returns for a market order, the order's status is
\* filled if it was completely filled and cancelled otherwise.
C6_MarketOrderStatus ==
    (Submitted /\ orders[ret.id].type = "market") =>
        orders[ret.id].status =
            IF RemainingSize(orders[ret.id]) = 0 THEN "filled" ELSE "cancelled"

\* ---- C7 ---------------------------------------------------------------------
\* C7: when SubmitOrder returns for a limit order that is not completely
\* filled, the order is queued in the book on its own side at its limit price
\* and nowhere else, with status partial if something was filled and pending
\* if nothing was; a completely filled limit order has status filled and is
\* not in the book.
C7_LimitOrderRests ==
    (Submitted /\ orders[ret.id].type = "limit") =>
        LET o == orders[ret.id]
            other == [o EXCEPT !.side = IF o.side = "buy" THEN "sell" ELSE "buy"]
        IN IF o.filled_size # o.size
           THEN /\ ret.id \in book.orders
                /\ InSeq(QueueOf(book, o), ret.id)
                /\ \A p \in DOMAIN Levels(book, o.side) :
                      InSeq(Levels(book, o.side)[p].queue, ret.id) => p = o.price
                /\ \A p \in DOMAIN Levels(book, other.side) :
                      ~InSeq(Levels(book, other.side)[p].queue, ret.id)
                /\ RemainingSize(o) = o.size - o.filled_size
                /\ RemainingSize(o) > 0
                /\ o.status = IF o.filled_size > 0 THEN "partial" ELSE "pending"
           ELSE /\ o.status = "filled"
                /\ ret.id \notin book.orders
                /\ ~Queued(book, ret.id)

\* a limit order traded on entry and rests with what is left
C7_Witness ==
    /\ Submitted
    /\ orders[ret.id].type = "limit"
    /\ ret.trades # <<>>
    /\ orders[ret.id].status = "partial"
    /\ InSeq(QueueOf(book, orders[ret.id]), ret.id)

\* ---- C8 ---------------------------------------------------------------------
\* C8: SubmitOrder returns an error for an order with size <= 0, with
\* leverage outside 1 .. MaxLeverage, or for a limit order with price <= 0:
\* every order it accepts has none of these.
C8_InvalidOrderRejected ==
    Submitted =>
        LET o == orders[ret.id]
        IN /\ o.size > 0
           /\ o.leverage \in 1 .. MaxLeverage
           /\ o.type = "limit" => o.price > 0

\* ---- C9 ---------------------------------------------------------------------
\* C9: SubmitOrder accepts an order only when its trader and its instrument
\* are registered; a call it answers with an error leaves the book, the
\* orders, the positions, the traders, the recent trades and the tables as
\* they were and calls no handler.
C9_Step ==
    /\ SubmitStep =>
          /\ orders'[ret'.id].trader_id \in DOMAIN traders
          /\ orders'[ret'.id].instrument = RIndex
    /\ (ret'.op = "submit" /\ ret'.err # "") =>
          UNCHANGED <<book, orders, positions, traders, recentTrades, db, events, nextId>>
    /\ (ret'.op = "submit" /\ nextId' = nextId) => ret'.err # ""

C9_UnknownRejected == [][C9_Step]_vars

\* an order of an unregistered trader was turned down while the book held
\* an order it could have matched
C9_Witness ==
    /\ ret.op = "submit"
    /\ ret.err = "unknown trader"
    /\ book.orders # {}
    /\ recentTrades # <<>>

\* ---- C10 --------------------------------------------------------------------
\* C10: CancelOrder succeeds exactly when the order is queued in the book.
\* On success the order leaves the book, its status is cancelled and one
\* order event is emitted; otherwise the call returns an error and changes
\* nothing.  An order that is cancelled or filled is not in the book, and no
\* later SubmitOrder trades against it.
C10_Step ==
    /\ (ret'.op = "cancel" /\ ret'.err = "") =>
          /\ Queued(book, ret'.id)
          /\ ret'.id \in book.orders
          /\ ~Queued(book', ret'.id)
          /\ ret'.id \notin book'.orders
          /\ orders'[ret'.id] = [orders[ret'.id] EXCEPT !.status = "cancelled"]
          /\ events' = Append(events, OrderEvent(orders'[ret'.id]))
          /\ ret'.id \notin DOMAIN db'.orders
          /\ UNCHANGED <<positions, traders, recentTrades>>
    /\ (ret'.op = "cancel" /\ ret'.err = "order not found") =>
          /\ ~Queued(book, ret'.id)
          /\ UNCHANGED <<book, orders, positions, traders, recentTrades, db, events>>
    /\ (ret'.op = "cancel" /\ ret'.err = "unknown instrument") =>
          UNCHANGED <<book, orders, positions, traders, recentTrades, db, events>>
    /\ \A id \in DOMAIN orders' :
          orders'[id].status \in {"cancelled", "filled"} =>
              id \notin book'.orders /\ ~Queued(book', id)
    /\ SubmitStep =>
          \A t \in TradeSet(ret'.trades) :
              orders[RestingId(t)].status \in {"pending", "partial"}

C10_CancelExactlyResting == [][C10_Step]_vars

\* a second cancel of an order that was cancelled before is turned down
C10_Witness ==
    /\ ret.op = "cancel"
    /\ ret.err = "order not found"
    /\ ret.id \in DOMAIN orders
    /\ orders[ret.id].status = "cancelled"

\* ---- C11 --------------------------------------------------------------------
\* C11: after each fill of size f the buyer's position is its size before the
\* fill plus f and the seller's is its size before minus f (a missing record
\* counts as zero); the trade's buyer_new_position and seller_new_position
\* carry exactly these sizes.  Checked on every accepted submission by
\* replaying its trades, in execution order, on the sizes of the state before.
C11_Step ==
    SubmitStep =>
        /\ \A i \in 1 .. Len(ret'.trades) :
               /\ ret'.trades[i].buyer_new_position =
                      SizeOf(positions, ret'.trades[i].buyer_id)
                          + SumFills(ret'.trades, ret'.trades[i].buyer_id, i - 1)
                          + ret'.trades[i].size
               /\ ret'.trades[i].seller_new_position =
                      SizeOf(positions, ret'.trades[i].seller_id)
                          + SumFills(ret'.trades, ret'.trades[i].seller_id, i - 1)
                          - ret'.trades[i].size
        /\ \A x \in TraderIds :
               SizeOf(positions', x) =
                   SizeOf(positions, x) + SumFills(ret'.trades, x, Len(ret'.trades))

C11_PositionSizes == [][C11_Step]_vars

\* a fill has reduced a long seller and a short buyer without closing them
C11_Witness ==
    /\ WellFormedOrders
    /\ Submitted
    /\ \E i \in 1 .. Len(ret.trades) :
           /\ ret.trades[i].seller_new_position > 0
           /\ ret.trades[i].buyer_new_position < 0
           /\ SizeOf(positions, ret.trades[i].seller_id) = ret.trades[i].seller_new_position
           /\ SizeOf(positions, ret.trades[i].buyer_id) = ret.trades[i].buyer_new_position

\* ---- C12 --------------------------------------------------------------------
\* the position of trader x changes sign in this step
Flips(x) ==
    /\ x \in DOMAIN positions
    /\ x \in DOMAIN positions'
    /\ positions[x].size * positions'[x].size < 0

\* the P&L of closing the whole position p at the given price
WholeClosePnl(p, price) ==
    IF p.size > 0 THEN (Dec(price) - p.entry_price) * Abs(p.size)
    ELSE (p.entry_price - Dec(price)) * Abs(p.size)

\* C12: when one fill takes a position from one side to the other, P&L is
\* realised on the whole old size at the fill price (long: (P - E) * |s_old|,
\* short: (E - P) * |s_old|), added to the realised P&L so far, and the entry
\* price of the new position is the fill price.  Checked on the accepted
\* submissions that execute one trade.
C12_Step ==
    SubmitStep /\ Len(ret'.trades) = 1 =>
        \A x \in TraderIds :
            Flips(x) =>
                /\ positions'[x].entry_price = Dec(ret'.trades[1].price)
                /\ positions'[x].realized_pnl =
                       positions[x].realized_pnl
                           + WholeClosePnl(positions[x], ret'.trades[1].price)

C12_FlipRealisesWholeOldSize == [][C12_Step]_vars

\* a long of size 1 entered at 1 has sold 2 at 2: short 1 entered at 2, with
\* a realised P&L of (2 - 1) * 1
C12_Witness ==
    /\ WellFormedOrders
    /\ Submitted
    /\ Len(ret.trades) = 1
    /\ ret.trades[1].price = 2
    /\ ret.trades[1].size = 2
    /\ ret.trades[1].seller_effect = "close"
    /\ ret.trades[1].seller_new_position = 0 - 1
    /\ ret.trades[1].seller_id \in DOMAIN positions
    /\ positions[ret.trades[1].seller_id].size = 0 - 1
    /\ positions[ret.trades[1].seller_id].entry_price = Dec(2)
    /\ positions[ret.trades[1].seller_id].realized_pnl = Dec(1)

\* ---- C13 --------------------------------------------------------------------
\* C13: no flat position record exists: a trader whose net position is zero
\* has no record, so get_position returns null for that trader after a fill
\* that nets the position to zero.
\* (Stated for the states reached with well-formed orders only.)
C13_NoFlatPosition ==
    WellFormedOrders =>
        \A x \in TraderIds :
            GetPosition(positions, x) # <<>> => GetPosition(positions, x)[1].size # 0

\* ---- C14 --------------------------------------------------------------------
\* C14: every non-flat position has its liquidation price strictly below its
\* entry price if it is long and strictly above it if it is short.
\* (liquidation_price is in units of 1/LiqScale, entry_price of 1/DecScale.)
C14_LiquidationPriceSide ==
    \A x \in DOMAIN positions :
        /\ positions[x].size > 0 =>
               positions[x].liquidation_price < positions[x].entry_price * MarginScale
        /\ positions[x].size < 0 =>
               positions[x].liquidation_price > positions[x].entry_price * MarginScale

\* ---- C15 --------------------------------------------------------------------
\* the order of trader x in trade t
OrderOfParty(t, x) == IF t.buyer_id = x THEN t.buyer_order_id ELSE t.seller_order_id

\* C15: a position opened from flat takes the leverage of the order that
\* opened it, a position that is added to keeps its leverage, and a position
\* that flips takes the leverage of the order that caused the flip.  Checked
\* on the accepted submissions that execute one trade, for both parties.
\* (Stated for the steps between states with well-formed orders only.)
C15_Step ==
    (SubmitStep /\ Len(ret'.trades) = 1 /\ WellFormedOrders') =>
        \A x \in {ret'.trades[1].buyer_id, ret'.trades[1].seller_id} :
            LET old == SizeOf(positions, x)
                new == SizeOf(positions', x)
            IN /\ (old = 0 /\ new # 0) \/ old * new < 0 =>
                      positions'[x].leverage =
                          orders'[OrderOfParty(ret'.trades[1], x)].leverage
               /\ old * new > 0 /\ Abs(new) > Abs(old) =>
                      positions'[x].leverage = positions[x].leverage

C15_LeveragePolicy == [][C15_Step]_vars

\* ---- C16 --------------------------------------------------------------------
Max(a, b) == IF a > b THEN a ELSE b

\* C16: on every trade each party's max_leverage_used becomes the maximum of
\* its value before and the leverage of that party's order, and a trader's
\* max_leverage_used never decreases.  The first part is checked on the
\* accepted submissions that execute one trade, the second on every step.
\* (Stated for the steps between states with well-formed orders only.)
C16_Step ==
    /\ (SubmitStep /\ Len(ret'.trades) = 1 /\ WellFormedOrders') =>
           \A x \in {ret'.trades[1].buyer_id, ret'.trades[1].seller_id} :
               traders'[x].max_leverage_used =
                   Max(traders[x].max_leverage_used,
                       orders'[OrderOfParty(ret'.trades[1], x)].leverage)
    /\ \A x \in DOMAIN traders :
           x \in DOMAIN traders'
               /\ traders'[x].max_leverage_used >= traders[x].max_leverage_used

C16_MaxLeverageUsed == [][C16_Step]_vars

\* ---- C17 --------------------------------------------------------------------
\* the price of the trade executed last, by the trades table
LastTradePrice(d) == d.trades[Len(d.trades)].price

\* C17: get_mark_price returns the price of the most recently executed trade,
\* or the configured initial price when no trade has occurred; a step that
\* executes no trade (an order that rests, a cancellation, a forced close)
\* does not change it.
C17_Step ==
    /\ GetMarkPrice(recentTrades) =
           IF db.trades # <<>> THEN LastTradePrice(db) ELSE cfg.starting_price
    /\ Len(db'.trades) = Len(db.trades) =>
           GetMarkPrice(recentTrades') = GetMarkPrice(recentTrades)

C17_MarkPrice == [][C17_Step]_vars

\* ---- C18 --------------------------------------------------------------------
\* checkPositions returns in this step
ScanEnds == scan.pc = "check" /\ scan.todo = <<>> /\ scan'.pc = "idle"

\* C18: no liquidatable position survives a scan: when a scan ends, no
\* position satisfies the trigger (long: mark price <= liquidation price,
\* short: mark price >= liquidation price) at the mark price the scan read.
\* (Stated for the scans whose mark price is still the current one.)
C18_Step ==
    ScanEnds /\ GetMarkPrice(recentTrades) = scan.mark =>
        \A x \in DOMAIN positions : ~shouldLiquidate(positions[x], scan.mark)

C18_NoLiquidatableSurvives == [][C18_Step]_vars

\* ---- C19 --------------------------------------------------------------------
\* C19: a long position of size 1 opened at entry 100 by an order with
\* leverage 100 carries leverage 100, margin 1 and liquidation price 99.02
\* (from which the liquidation at mark 99.00 with loss 1, insurance_fund_hit
\* false and an unchanged fund follows).
C19_Example ==
    \A x \in TraderIds :
        (/\ Submitted
         /\ Len(ret.trades) = 1
         /\ ret.trades[1].price = 100
         /\ ret.trades[1].size = 1
         /\ ret.trades[1].buyer_id = x
         /\ ret.trades[1].buyer_effect = "open"
         /\ ret.trades[1].buyer_new_position = 1
         /\ orders[ret.trades[1].buyer_order_id].leverage = 100) =>
            /\ x \in DOMAIN positions
            /\ positions[x].size = 1
            /\ positions[x].entry_price = Dec(100)
            /\ positions[x].leverage = 100
            /\ positions[x].margin = Dec(1)
            /\ positions[x].liquidation_price * 100 = 9902 * LiqScale

\* ---- C20 --------------------------------------------------------------------
\* C20: the insurance-fund balance is never negative, whatever forced closes
\* have happened, one whose shortfall exceeds the balance included.
C20_FundNotNegative == insuranceFund >= 0

\* the only forced close so far had a shortfall above the balance the fund
\* started with, and has left the fund empty
C20_Witness ==
    /\ WellFormedOrders
    /\ Len(liquidations) = 1
    /\ Len(db.liquidations) = 1
    /\ liquidations[1].insurance_fund_hit
    /\ liquidations[1].loss > cfg.insurance_fund_initial
    /\ scan.pc = "idle"
    /\ insuranceFund = 0

\* ---- C21 --------------------------------------------------------------------
\* the monitor's call of ClosePosition succeeds in this step / its handlers
\* run in this step
CloseStep == scan.pc = "close" /\ scan'.pc = "notify"

NotifyStep == scan.pc = "notify" /\ scan'.pc = "check"

\* C21: a forced close deletes the position, credits the trader's balance
\* with margin + P&L at the mark price, and produces exactly one liquidation
\* record and one liquidation event, emitted after the position has been
\* deleted; it creates no trade, so the recent trades, the mark price and the
\* order book are the same after it as before.
C21_Step ==
    /\ CloseStep =>
           /\ Head(scan.todo) \in DOMAIN positions
           /\ positions' = RemoveKey(positions, Head(scan.todo))
           /\ db'.positions = RemoveKey(db.positions, Head(scan.todo))
           /\ traders'[Head(scan.todo)].balance =
                  traders[Head(scan.todo)].balance
                      + positions[Head(scan.todo)].margin
                      + WholeClosePnl(positions[Head(scan.todo)], scan.mark)
           /\ liquidations' = liquidations
           /\ events' = events
    /\ NotifyStep =>
           /\ liquidations' = <<scan.liq[1]>> \o liquidations
           /\ db'.liquidations = Append(db.liquidations, scan.liq[1])
           /\ events' = Append(events, LiquidationEvent(scan.liq[1]))
           /\ positions' = positions
    /\ CloseStep \/ NotifyStep =>
           /\ recentTrades' = recentTrades
           /\ db'.trades = db.trades
           /\ GetMarkPrice(recentTrades') = GetMarkPrice(recentTrades)
           /\ book' = book
    /\ (Len(events') > Len(events) /\ events'[Len(events')].type = "liquidation")
           => NotifyStep
    /\ liquidations' # liquidations => NotifyStep

C21_ForcedClose == [][C21_Step]_vars

\* a short position has been force-closed at a loss: record, event, balance
C21_Witness ==
    /\ WellFormedOrders
    /\ scan.pc = "check"
    /\ Len(liquidations) = 1
    /\ liquidations[1].loss > 0
    /\ liquidations[1].trader_id \notin DOMAIN positions
    /\ traders[liquidations[1].trader_id].balance =
           Dec(StartingBalance) - liquidations[1].loss
    /\ events # <<>>
    /\ events[Len(events)] = LiquidationEvent(liquidations[1])

\* ---- C22 --------------------------------------------------------------------
\* the place of a trader's position key in the sort order of the keys
KeyRank(t) == IF t = "A" THEN 1 ELSE IF t = "B" THEN 2 ELSE 3

\* C22: a scan is deterministic: from the same state it liquidates the
\* triggered positions in one order, that of their position keys, and leaves
\* the same liquidation records.  Checked on the liquidation history (newest
\* first) after the scans of SpecScan, where the positions of B and C are
\* triggered together.
C22_ScanOrder ==
    WellFormedOrders =>
        \A i, j \in DOMAIN liquidations :
            i < j => KeyRank(liquidations[j].trader_id) < KeyRank(liquidations[i].trader_id)

\* ---- C23 --------------------------------------------------------------------
\* C23: a forced close is atomic with respect to submit and cancel: the
\* position the monitor has evaluated and recorded is still there, unchanged,
\* when ClosePosition deletes it, so the liquidation record's size,
\* entry_price and loss describe the position that is closed, and a change of
\* the insurance fund is followed by the close of that position.  Checked on
\* the step in which the monitor calls ClosePosition.
C23_Step ==
    (scan.pc = "close" /\ scan'.pc # "close" /\ WellFormedOrders) =>
        /\ scan'.pc = "notify"
        /\ Head(scan.todo) \in DOMAIN positions
        /\ scan.liq[1].size = Abs(positions[Head(scan.todo)].size)
        /\ scan.liq[1].entry_price = positions[Head(scan.todo)].entry_price
        /\ scan.liq[1].loss = liquidationLoss(positions[Head(scan.todo)], scan.mark)

C23_AtomicForcedClose == [][C23_Step]_vars

\* ---- C24 --------------------------------------------------------------------
\* the events a message of a send buffer stands for
IsTradeMsg(m) == m # ChannelMsg /\ events[m].type = "trade"

IsOrderMsg(m) == m # ChannelMsg /\ events[m].type = "order"

TradeOfMsg(m) == CHOOSE t \in TradeSet(recentTrades) : t.id = events[m].id

\* the order-update message u reports a fill of an order of the trade whose
\* event is the message m (in SpecHub an order is filled at most once)
DerivedFrom(u, m) ==
    /\ IsOrderMsg(u)
    /\ IsTradeMsg(m)
    /\ events[u].filled_size > 0
    /\ events[u].id \in {TradeOfMsg(m).buyer_order_id, TradeOfMsg(m).seller_order_id}

\* C24: on every subscriber's stream the trade event of a fill comes before
\* every order-update event derived from that fill: no send buffer holds an
\* order update in front of the trade event of its fill.
C24_TradeEventFirst ==
    \A c \in DOMAIN hub.clients :
        \A i, j \in DOMAIN hub.clients[c].send :
            i < j => ~DerivedFrom(hub.clients[c].send[i], hub.clients[c].send[j])

\* ---- C25 --------------------------------------------------------------------
DispatchStep == hub'.next = hub.next + 1

\* a step of BroadcastToChannel that reached at least one subscriber
ChannelStep ==
    \E c \in DOMAIN hub.clients \cap DOMAIN hub'.clients :
        hub'.clients[c].send = Append(hub.clients[c].send, ChannelMsg)

C25_Step ==
    /\ DispatchStep =>
           \A c \in DOMAIN hub.clients :
               ~HasRoom(hub.clients[c]) => c \notin DOMAIN hub'.clients
    /\ ChannelStep =>
           \A c \in DOMAIN hub.clients :
               hub.clients[c].subscribed /\ ~HasRoom(hub.clients[c])
                   => c \notin DOMAIN hub'.clients

\* C25: a subscriber whose buffer is full when a message is fanned out is
\* dropped (closed and unregistered), through broadcast and through
\* broadcast_channel alike.
C25_FullSubscriberDropped == [][C25_Step]_vars

\* ---- C26 --------------------------------------------------------------------
\* C26: the fan-out never waits for a subscriber: the dispatcher can take the
\* next message whenever one is pending, every message broadcast is
\* dispatched, and a submit that waits inside its handlers returns.
C26_FanOutCompletes ==
    /\ [](hub.next < Len(events) => ENABLED HubDispatch)
    /\ \A n \in 1 .. 2 * MaxHubOrders : (Len(events) >= n) ~> (hub.next >= n)
    /\ (~Returned) ~> Returned

\* a submit waits inside Hub.Broadcast while a subscriber's buffer is full
C26_Witness ==
    /\ ~Returned
    /\ \E c \in DOMAIN hub.clients : ~HasRoom(hub.clients[c])

\* ---- C27 --------------------------------------------------------------------
\* a step that starts the server again on the tables as they are
RestartStep == ret'.op = "init" /\ db' = db

C27_Step ==
    RestartStep =>
        /\ book' = book
        /\ \A id \in book.orders : id \in DOMAIN orders' /\ orders'[id] = orders[id]

\* C27: a restart rebuilds the order book with exactly the orders that were
\* resting before it (pending or partial, with their filled sizes), in the
\* same FIFO order within each level.
C27_RestartRebuildsBook == [][C27_Step]_vars

\* ---- C28 --------------------------------------------------------------------
\* C28: the persisted records reflect every fill completely or not at all:
\* in the tables every trader's position size is the sum of the signed sizes
\* of the trader's trade rows, and the trade count is the number of them.
C28_NoPartialFill ==
    \A t \in DOMAIN db.traders :
        /\ (IF t \in DOMAIN db.positions THEN db.positions[t].size ELSE 0)
               = SumFills(db.trades, t, Len(db.trades))
        /\ db.traders[t].trade_count
               = Cardinality({i \in DOMAIN db.trades :
                                 t \in {db.trades[i].buyer_id, db.trades[i].seller_id}})

\* ---- C29 --------------------------------------------------------------------
\* the sum of the remaining sizes of the orders of a queue
RECURSIVE QueueRemaining(_)
QueueRemaining(q) ==
    IF q = <<>> THEN 0 ELSE RemainingSize(orders[Head(q)]) + QueueRemaining(Tail(q))

LevelSound(lv) ==
    /\ lv.totalSize = QueueRemaining(lv.queue)
    /\ lv.orderCount = Len(lv.queue)
    /\ lv.orderCount > 0

\* C29: for the order book on its own, after any adds and removes every
\* level's total size is the sum of the remaining sizes of its queued orders,
\* its count is their number, and no level with count 0 exists.
C29_LevelTotals ==
    \A side \in Sides :
        \A p \in DOMAIN Levels(book, side) : LevelSound(Levels(book, side)[p])

\* a remove has emptied a level, which is gone, while another level holds two
\* orders, one of them partly filled
C29_Witness ==
    /\ ret.op = "remove"
    /\ ret.err = ""
    /\ orders[ret.id].price \notin DOMAIN Levels(book, orders[ret.id].side)
    /\ \E side \in Sides :
           \E p \in DOMAIN Levels(book, side) :
               /\ Len(Levels(book, side)[p].queue) = 2
               /\ \E i \in 1 .. 2 :
                      orders[Levels(book, side)[p].queue[i]].filled_size > 0

\* ---- C30 --------------------------------------------------------------------
\* the sum of the absolute sizes of the positions of the traders S
RECURSIVE SumAbsSizes(_)
SumAbsSizes(S) ==
    IF S = {} THEN 0
    ELSE LET t == CHOOSE x \in S : TRUE
         IN Abs(positions[t].size) + SumAbsSizes(S \ {t})

\* C30: get_open_interest's total_oi is the sum of the absolute sizes of all
\* non-flat positions, long and short, and equals the open_interest of
\* get_market_stats in the same state.
C30_OpenInterest ==
    WellFormedOrders =>
        /\ GetOpenInterestBreakdown(positions).total_oi = SumAbsSizes(DOMAIN positions)
        /\ GetOpenInterestBreakdown(positions).total_oi
               = GetMarketStats(positions, recentTrades).open_interest

\* ---- C31 --------------------------------------------------------------------
\* C31: after every completed operation (submit, cancel, forced close) every
\* trader's balance is at least 0.
C31_BalanceNotNegative == \A t \in DOMAIN traders : traders[t].balance >= 0

\* ---- C32 --------------------------------------------------------------------
\* C32: in every state reached through the matching engine every level's
\* total size is the sum of the remaining sizes of the orders still queued at
\* it and its count is their number, also after one of several orders of a
\* level is completely filled.
C32_EngineLevelTotals ==
    WellFormedOrders => \A side \in Sides :
        \A p \in DOMAIN Levels(book, side) :
            /\ Levels(book, side)[p].totalSize
                   = QueueRemaining(Levels(book, side)[p].queue)
            /\ Levels(book, side)[p].orderCount = Len(Levels(book, side)[p].queue)

\* ---- C33 --------------------------------------------------------------------
Terminal(o) == o.status \in {"filled", "cancelled"}

C33_BookOrders ==
    /\ \A id \in book.orders :
           /\ orders[id].type = "limit"
           /\ orders[id].status \in {"pending", "partial"}
           /\ 0 <= orders[id].filled_size
           /\ orders[id].filled_size < orders[id].size
    /\ \A id \in DOMAIN orders : Terminal(orders[id]) => id \notin book.orders

\* an order that is filled or cancelled is not touched by any later step
C33_Step ==
    \A id \in DOMAIN orders :
        Terminal(orders[id]) => id \in DOMAIN orders' /\ orders'[id] = orders[id]

\* C33: between operations every order in the book is a limit order with
\* status pending or partial and 0 <= filled_size < size, and every filled or
\* cancelled order is absent from the book and is never matched again.
C33_RestingOrders == []C33_BookOrders /\ [][C33_Step]_vars

\* a partly filled order rests while the order that filled it is filled and
\* out of the book
C33_Witness ==
    /\ ret.op = "submit"
    /\ ret.trades # <<>>
    /\ Terminal(orders[ret.id])
    /\ ret.id \notin book.orders
    /\ \E id \in book.orders : orders[id].status = "partial"

\* ---- C34 --------------------------------------------------------------------
\* the fill d reduces the position p without taking it to the other side
Reduces(p, d) == p.size * d < 0 /\ Abs(d) <= Abs(p.size)

\* C34: a fill that reduces a position without flipping it adds
\* (P - E) * |d| to the realised P&L of a long and (E - P) * |d| to that of a
\* short, and leaves the entry price unchanged.  Checked on the accepted
\* submissions that execute one trade.
C34_Step ==
    SubmitStep /\ Len(ret'.trades) = 1 =>
        \A x \in DOMAIN positions :
            Reduces(positions[x], SignedFill(ret'.trades[1], x)) =>
                /\ x \in DOMAIN positions'
                /\ positions'[x].entry_price = positions[x].entry_price
                /\ positions'[x].realized_pnl =
                       positions[x].realized_pnl
                           + (IF positions[x].size > 0
                              THEN (Dec(ret'.trades[1].price) - positions[x].entry_price)
                              ELSE (positions[x].entry_price - Dec(ret'.trades[1].price)))
                             * Abs(SignedFill(ret'.trades[1], x))

C34_ReduceRealisesClosedSize == [][C34_Step]_vars

\* a long of size 2 entered at 1 has sold 1 at 2: long 1, still entered at 1,
\* with a realised P&L of (2 - 1) * 1
C34_Witness ==
    /\ WellFormedOrders
    /\ Submitted
    /\ Len(ret.trades) = 1
    /\ ret.trades[1].price = 2
    /\ ret.trades[1].size = 1
    /\ ret.trades[1].seller_new_position = 1
    /\ ret.trades[1].seller_id \in DOMAIN positions
    /\ positions[ret.trades[1].seller_id].size = 1
    /\ positions[ret.trades[1].seller_id].entry_price = Dec(1)
    /\ positions[ret.trades[1].seller_id].realized_pnl = Dec(1)

\* ---- C35 --------------------------------------------------------------------
\* the position of trader x before the step, a flat one without a record
Before(x) == IF x \in DOMAIN positions THEN positions[x] ELSE NewPosition

\* the fill d opens a position or adds to it
Adds(p, d) == d # 0 /\ (p.size = 0 \/ p.size * d > 0)

\* q is n / m rounded to the nearest unit of the division precision, a tie
\* away from zero
RoundedQuotient(q, n, m) ==
    /\ 2 * Abs(n - q * m) <= Abs(m)
    /\ 2 * Abs(n - q * m) = Abs(m) => Abs(q * m) > Abs(n)

\* C35 as the code has it: a fill that opens or adds to a position leaves the
\* realised P&L unchanged and sets the entry price to the fill price when the
\* position was flat, and otherwise to the quotient
\* (s_old * E + d * P) / (s_old + d) rounded at the division precision.
\* Checked on the accepted submissions that execute one trade.
C35_Step ==
    SubmitStep /\ Len(ret'.trades) = 1 =>
        \A x \in TraderIds :
            Adds(Before(x), SignedFill(ret'.trades[1], x)) =>
                /\ x \in DOMAIN positions'
                /\ positions'[x].realized_pnl = Before(x).realized_pnl
                /\ IF Before(x).size = 0
                   THEN positions'[x].entry_price = Dec(ret'.trades[1].price)
                   ELSE RoundedQuotient(positions'[x].entry_price,
                            Before(x).size * Before(x).entry_price
                                + SignedFill(ret'.trades[1], x) * Dec(ret'.trades[1].price),
                            Before(x).size + SignedFill(ret'.trades[1], x))

C35_RoundedAverageEntry == [][C35_Step]_vars

\* C35: a fill that adds to a position sets the entry price to the
\* size-weighted average (s_old * E + d * P) / (s_old + d) itself:
\* entry_price * (s_old + d) = s_old * E + d * P.
C35_ExactStep ==
    SubmitStep /\ Len(ret'.trades) = 1 =>
        \A x \in DOMAIN positions :
            (positions[x].size # 0 /\ Adds(positions[x], SignedFill(ret'.trades[1], x))) =>
                positions'[x].entry_price
                        * (positions[x].size + SignedFill(ret'.trades[1], x))
                    = positions[x].size * positions[x].entry_price
                          + SignedFill(ret'.trades[1], x) * Dec(ret'.trades[1].price)

C35_ExactAverageEntry == [][C35_ExactStep]_vars

\* a long of size 2 entered at 1 has bought 1 at 2: long 3 entered at 4/3,
\* rounded
C35_Witness ==
    /\ WellFormedOrders
    /\ Submitted
    /\ Len(ret.trades) = 1
    /\ ret.trades[1].price = 2
    /\ ret.trades[1].size = 1
    /\ ret.trades[1].buyer_new_position = 3
    /\ ret.trades[1].buyer_id \in DOMAIN positions
    /\ positions[ret.trades[1].buyer_id].entry_price = DecDiv(2 * Dec(1) + Dec(2), 3)
    /\ positions[ret.trades[1].buyer_id].realized_pnl = 0

\* ---- C36 --------------------------------------------------------------------
\* the monitor computes the loss, the record and the fund for a position
LiquidateStep == scan.pc = "liquidate" /\ scan'.pc = "close"

\* the loss of the position p at the mark price m
LossAt(p, m) ==
    IF p.size > 0 THEN (p.entry_price - Dec(m)) * p.size
    ELSE (Dec(m) - p.entry_price) * Abs(p.size)

\* the fund and the record's flag for a loss against a margin
FundRule(loss, margin, liq) ==
    IF loss <= margin
    THEN /\ insuranceFund' = insuranceFund + (margin - loss)
         /\ ~liq.insurance_fund_hit
    ELSE /\ insuranceFund' = insuranceFund - Min(loss - margin, insuranceFund)
         /\ liq.insurance_fund_hit

\* C36: on a forced close the loss is (entry - mark) * size for a long and
\* (mark - entry) * |size| for a short; if it is at most the position's margin
\* the fund grows by margin - loss and insurance_fund_hit is false, else the
\* fund shrinks by min(loss - margin, fund) and insurance_fund_hit is true.
C36_Step ==
    LiquidateStep =>
        /\ scan'.liq[1].loss = LossAt(positions[Head(scan.todo)], scan.mark)
        /\ FundRule(LossAt(positions[Head(scan.todo)], scan.mark),
                    positions[Head(scan.todo)].margin, scan'.liq[1])

RestingOn(side) == {id \in book.orders : orders[id].side = side}

\* C37: the book is never crossed between different traders: a resting bid
\* and a resting ask with bid.price >= ask.price belong to the same trader.
C37_NotCrossed ==
    \A b \in RestingOn("buy"), a \in RestingOn("sell") :
        orders[b].price >= orders[a].price => orders[b].trader_id = orders[a].trader_id

\* a trader's own bid and ask cross while another trader's order rests too
C37_Witness ==
    /\ WellFormedOrders
    /\ \E b \in RestingOn("buy"), a \in RestingOn("sell") :
           /\ orders[b].price >= orders[a].price
           /\ orders[b].trader_id = orders[a].trader_id
    /\ \E x, y \in book.orders : orders[x].trader_id # orders[y].trader_id

\* ---- C38 --------------------------------------------------------------------
\* the sum of the signed sizes of the positions of the traders S
RECURSIVE SumSizes(_)
SumSizes(S) ==
    IF S = {} THEN 0
    ELSE LET t == CHOOSE x \in S : TRUE
         IN positions[t].size + SumSizes(S \ {t})

\* C38: without a forced close the signed position sizes of all traders sum
\* to zero in every state reached by submit and cancel.
C38_SizesSumToZero == SumSizes(DOMAIN positions) = 0

\* a long and a short of size 2 after two fills
C38_Witness ==
    /\ WellFormedOrders
    /\ Len(recentTrades) = 2
    /\ \E x, y \in DOMAIN positions : positions[x].size = 2 /\ positions[y].size = 0 - 2

\* ---- C39 --------------------------------------------------------------------
\* C39: in every interleaving of the dispatcher, broadcast, broadcast_channel
\* and unregistration a subscriber's buffer is closed at most once and no
\* message is sent to a buffer after it has been closed: no registered client
\* has a closed buffer and no send has hit a closed buffer.
C39_NoSendAfterClose ==
    /\ hub.fault = ""
    /\ DOMAIN hub.clients \cap DOMAIN hub.closed = {}

\* ---- C40 --------------------------------------------------------------------
\* the reference prices of the zero-sum check
RefPrices == 0 .. MaxPrice + 1

\* realised plus unrealised P&L of the position p at the reference price m
Worth(p, m) == p.realized_pnl + p.size * (Dec(m) - p.entry_price)

RECURSIVE SumWorth(_, _, _)
SumWorth(pos, S, m) ==
    IF S = {} THEN 0
    ELSE LET t == CHOOSE x \in S : TRUE
         IN Worth(pos[t], m) + SumWorth(pos, S \ {t}, m)

\* the fill d at the price P adds to the open position p and the new
\* weighted-average entry price is not a multiple of the division precision
Rounds(p, d, P) ==
    /\ p.size # 0
    /\ Adds(p, d)
    /\ Abs(p.size * p.entry_price + d * Dec(P)) % Abs(p.size + d) # 0

RECURSIVE RoundedSize(_, _)
RoundedSize(trade, S) ==
    IF S = {} THEN 0
    ELSE LET t == CHOOSE x \in S : TRUE
         IN (IF Rounds(Before(t), SignedFill(trade, t), trade.price)
             THEN Abs(Before(t).size + SignedFill(trade, t)) ELSE 0)
            + RoundedSize(trade, S \ {t})

\* C40 as the spec has it: without a forced close the sum over all traders of
\* realized_pnl + size * (m - entry_price) is zero for every reference price
\* m, and so the realised P&L of all traders sums to zero when all are flat.
C40_ExactZeroSum ==
    WellFormedOrders =>
        \A m \in RefPrices : SumWorth(positions, DOMAIN positions, m) = 0

\* C40 as the code has it: without a forced close the sum over all traders of
\* realized_pnl + size * (m - entry_price) changes only in a fill that rounds
\* a weighted-average entry price, and then by at most half a unit of the
\* division precision for each unit of size of the positions so averaged.
\* Checked on the steps that execute at most one trade.
C40_Step ==
    \A m \in RefPrices :
        LET change == SumWorth(positions', DOMAIN positions', m)
                          - SumWorth(positions, DOMAIN positions, m)
        IN IF SubmitStep /\ Len(ret'.trades) = 1
           THEN 2 * Abs(change) <= RoundedSize(ret'.trades[1], DOMAIN positions')
           ELSE (SubmitStep /\ Len(ret'.trades) > 1) \/ change = 0

C40_ZeroSumUpToRounding == [][C40_Step]_vars

\* A, long 2 entered at 1, has bought 1 at 2 from C: its entry price is 4/3
\* rounded and the sum is no longer zero
C40_Witness ==
    /\ WellFormedOrders
    /\ "A" \in DOMAIN positions
    /\ positions["A"].size = 3
    /\ 3 * positions["A"].entry_price # Dec(4)
    /\ SumWorth(positions, DOMAIN positions, 0) # 0

====
